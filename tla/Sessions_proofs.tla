------------------------------ MODULE Sessions_proofs ------------------------------
(***************************************************************************)
(* Proofs about Sessions, for every length of the files, every limit of    *)
(* the replay and any number of broken sockets: that a card which has read *)
(* the whole file is true, and that the detail view implements LogFeed.    *)
(*                                                                         *)
(* The readers fold over lines.  What a fold computes is proved by         *)
(* induction over the naturals as a set with 0 and the successors of its   *)
(* members, which needs the least member of a set and no more.             *)
(***************************************************************************)
EXTENDS Sessions, SequenceTheorems, WellFoundedInduction, TLAPS

-----------------------------------------------------------------------------
(* Induction.                                                              *)

\* A set of naturals with 0 and every successor has them all.
LEMMA AllNaturals ==
  ASSUME NEW T, T \subseteq Nat, 0 \in T, \A n \in T : n + 1 \in T
  PROVE  T = Nat
  <1> DEFINE R == OpToRel(<, Nat)
             U == Nat \ T
  <1>1. IsWellFoundedOn(R, Nat)
    BY NatLessThanWellFounded
  <1>2. \A x, y \in Nat : <<x, y>> \in R <=> x < y
    BY DEF OpToRel
  <1> HIDE DEF R
  <1>3. CASE U # {}
    <2>1. PICK x \in U : \A y \in U : ~ (<<y, x>> \in R)
      BY <1>1, <1>3, WFMin
    <2>2. x # 0 /\ x \in Nat /\ x - 1 \in Nat
      OBVIOUS
    <2>3. <<x - 1, x>> \in R
      BY <1>2, <2>2
    <2>4. x - 1 \notin U
      BY <2>1, <2>3
    <2>5. QED
      BY <2>2, <2>4
  <1>4. QED
    BY <1>3

-----------------------------------------------------------------------------
(* What the folds of the readers compute.                                  *)

\* f is the vitals line by line, from off to end.
ScanRun(f, eng, lines, seen, off, end) ==
  f = [i \in off..end |-> IF i = off THEN seen ELSE ScanLine(eng, f[i - 1], lines[i], i)]

\* Every portion can be scanned.
LEMMA ScanExists ==
  ASSUME NEW eng, NEW lines, NEW seen, NEW off \in Nat, NEW n \in Nat
  PROVE  \E f : ScanRun(f, eng, lines, seen, off, off + n)
  <1> DEFINE T == {k \in Nat : \E f : ScanRun(f, eng, lines, seen, off, off + k)}
  <1>1. 0 \in T
    <2>1. ScanRun([i \in off..off |-> seen], eng, lines, seen, off, off + 0)
      BY DEF ScanRun
    <2>2. QED
      BY <2>1
  <1>2. ASSUME NEW k \in T PROVE k + 1 \in T
    <2>1. k \in Nat
      OBVIOUS
    <2>2. PICK f : ScanRun(f, eng, lines, seen, off, off + k)
      OBVIOUS
    <2> DEFINE g == [i \in off..(off + (k + 1)) |->
                       IF i <= off + k THEN f[i] ELSE ScanLine(eng, f[off + k], lines[i], i)]
    <2>3. ASSUME NEW i \in off..(off + (k + 1))
          PROVE  g[i] = IF i = off THEN seen ELSE ScanLine(eng, g[i - 1], lines[i], i)
      <3>1. CASE i <= off + k
        <4>1. i \in off..(off + k) /\ g[i] = f[i] /\ (i # off => g[i - 1] = f[i - 1])
          BY <2>1, <3>1
        <4>2. QED
          BY <2>2, <4>1 DEF ScanRun
      <3>2. CASE i > off + k
        <4>1. i = off + k + 1 /\ i # off /\ i - 1 = off + k /\ g[i - 1] = f[off + k]
          BY <2>1, <3>2
        <4>2. QED
          BY <2>1, <4>1
      <3>3. QED
        BY <2>1, <3>1, <3>2
    <2>4. ScanRun(g, eng, lines, seen, off, off + (k + 1))
      BY <2>3 DEF ScanRun
    <2>5. QED
      BY <2>1, <2>4
  <1>3. T = Nat
    BY <1>1, <1>2, AllNaturals
  <1>4. QED
    BY <1>3

\* Runs over the same lines have the same values.
LEMMA ScanSame ==
  ASSUME NEW eng, NEW lines, NEW lines2, NEW seen, NEW off \in Nat, NEW end \in Nat, NEW end2 \in Nat,
         off <= end, end <= end2, NEW f, NEW g,
         ScanRun(f, eng, lines, seen, off, end), ScanRun(g, eng, lines2, seen, off, end2),
         \A i \in (off + 1)..end : lines[i] = lines2[i]
  PROVE  f[end] = g[end]
  <1> DEFINE T == {k \in Nat : off + k <= end => f[off + k] = g[off + k]}
  <1>1. 0 \in T
    BY DEF ScanRun
  <1>2. ASSUME NEW k \in T PROVE k + 1 \in T
    <2>1. SUFFICES ASSUME off + (k + 1) <= end PROVE f[off + (k + 1)] = g[off + (k + 1)]
      OBVIOUS
    <2>2. f[off + k] = g[off + k] /\ lines[off + (k + 1)] = lines2[off + (k + 1)]
      BY <2>1
    <2>3. /\ off + (k + 1) \in off..end /\ off + (k + 1) \in off..end2
          /\ off + (k + 1) # off /\ (off + (k + 1)) - 1 = off + k
      BY <2>1
    <2>4. /\ f[off + (k + 1)] = ScanLine(eng, f[off + k], lines[off + (k + 1)], off + (k + 1))
          /\ g[off + (k + 1)] = ScanLine(eng, g[off + k], lines2[off + (k + 1)], off + (k + 1))
      BY <2>3 DEF ScanRun
    <2>5. QED
      BY <2>2, <2>4
  <1>3. T = Nat
    BY <1>1, <1>2, AllNaturals
  <1>4. end - off \in Nat /\ off + (end - off) = end
    OBVIOUS
  <1>5. end - off \in T
    BY <1>3, <1>4
  <1>6. QED
    BY <1>4, <1>5

\* Scan is the last value of a run.
LEMMA ScanIsRun ==
  ASSUME NEW eng, NEW lines, NEW seen, NEW off \in Nat, NEW end \in Nat, off <= end
  PROVE  \E f : ScanRun(f, eng, lines, seen, off, end) /\ Scan(eng, lines, seen, off, end) = f[end]
  <1> DEFINE f == CHOOSE f : ScanRun(f, eng, lines, seen, off, end)
  <1>1. end - off \in Nat /\ off + (end - off) = end
    OBVIOUS
  <1>2. \E g : ScanRun(g, eng, lines, seen, off, end)
    BY <1>1, ScanExists
  <1>3. ScanRun(f, eng, lines, seen, off, end)
    BY <1>2
  <1>4. Scan(eng, lines, seen, off, end) = f[end]
    BY DEF Scan, ScanRun
  <1>5. QED
    BY <1>3, <1>4

\* A scan tells of the lines it is given.
LEMMA ScanAgrees ==
  ASSUME NEW eng, NEW lines, NEW lines2, NEW seen, NEW off \in Nat, NEW end \in Nat, off <= end,
         \A i \in (off + 1)..end : lines[i] = lines2[i]
  PROVE  Scan(eng, lines, seen, off, end) = Scan(eng, lines2, seen, off, end)
  <1>1. PICK f : ScanRun(f, eng, lines, seen, off, end) /\ Scan(eng, lines, seen, off, end) = f[end]
    BY ScanIsRun
  <1>2. PICK g : ScanRun(g, eng, lines2, seen, off, end) /\ Scan(eng, lines2, seen, off, end) = g[end]
    BY ScanIsRun
  <1>3. end <= end
    OBVIOUS
  <1>4. f[end] = g[end]
    BY <1>1, <1>2, <1>3, ScanSame
  <1>5. QED
    BY <1>1, <1>2, <1>4

\* A scan of nothing tells nothing new.
LEMMA ScanNothing ==
  ASSUME NEW eng, NEW lines, NEW seen, NEW off \in Nat
  PROVE  Scan(eng, lines, seen, off, off) = seen
  <1>1. PICK f : ScanRun(f, eng, lines, seen, off, off) /\ Scan(eng, lines, seen, off, off) = f[off]
    BY ScanIsRun
  <1>2. QED
    BY <1>1 DEF ScanRun

\* A scan goes on with its next line.
LEMMA ScanNext ==
  ASSUME NEW eng, NEW lines, NEW seen, NEW off \in Nat, NEW end \in Nat, off <= end
  PROVE  Scan(eng, lines, seen, off, end + 1)
           = ScanLine(eng, Scan(eng, lines, seen, off, end), lines[end + 1], end + 1)
  <1>0. end + 1 \in Nat /\ off <= end + 1 /\ end <= end + 1
    OBVIOUS
  <1>1. PICK f : ScanRun(f, eng, lines, seen, off, end) /\ Scan(eng, lines, seen, off, end) = f[end]
    BY ScanIsRun
  <1>2. PICK g : ScanRun(g, eng, lines, seen, off, end + 1) /\ Scan(eng, lines, seen, off, end + 1) = g[end + 1]
    BY <1>0, ScanIsRun
  <1>3. f[end] = g[end]
    BY <1>0, <1>1, <1>2, ScanSame
  <1>4. end + 1 \in off..(end + 1) /\ end + 1 # off /\ (end + 1) - 1 = end
    OBVIOUS
  <1>5. g[end + 1] = ScanLine(eng, g[end], lines[end + 1], end + 1)
    BY <1>2, <1>4 DEF ScanRun
  <1>6. QED
    BY <1>1, <1>2, <1>3, <1>5

\* Read in portions or at once, the lines say the same.
LEMMA ScanPortions ==
  ASSUME NEW eng, NEW lines, NEW seen, NEW off \in Nat, NEW mid \in Nat, NEW end \in Nat,
         off <= mid, mid <= end
  PROVE  Scan(eng, lines, Scan(eng, lines, seen, off, mid), mid, end) = Scan(eng, lines, seen, off, end)
  <1> DEFINE first == Scan(eng, lines, seen, off, mid)
             T == {k \in Nat : Scan(eng, lines, first, mid, mid + k) = Scan(eng, lines, seen, off, mid + k)}
  <1> HIDE DEF first
  <1>1. 0 \in T
    <2>1. Scan(eng, lines, first, mid, mid) = first
      BY ScanNothing DEF first
    <2>2. mid + 0 = mid
      OBVIOUS
    <2>3. QED
      BY <2>1, <2>2 DEF first
  <1>2. ASSUME NEW k \in Nat, Scan(eng, lines, first, mid, mid + k) = Scan(eng, lines, seen, off, mid + k)
        PROVE  Scan(eng, lines, first, mid, mid + (k + 1)) = Scan(eng, lines, seen, off, mid + (k + 1))
    <2>1. PICK at \in Nat : at = mid + k /\ mid + (k + 1) = at + 1 /\ off <= at /\ mid <= at
      OBVIOUS
    <2>2. Scan(eng, lines, first, mid, at + 1)
            = ScanLine(eng, Scan(eng, lines, first, mid, at), lines[at + 1], at + 1)
      BY <2>1, ScanNext
    <2>3. Scan(eng, lines, seen, off, at + 1)
            = ScanLine(eng, Scan(eng, lines, seen, off, at), lines[at + 1], at + 1)
      <3>1. off \in Nat /\ at \in Nat /\ off <= at
        BY <2>1
      <3>2. QED
        BY <3>1, ScanNext, ZenonT(60)
    <2>4. QED
      BY <1>2, <2>1, <2>2, <2>3
  <1>3. T = Nat
    <2>1. \A k \in T : k + 1 \in T
      BY <1>2
    <2>2. QED
      BY <1>1, <2>1, AllNaturals
  <1>4. end - mid \in Nat /\ mid + (end - mid) = end
    OBVIOUS
  <1>5. end - mid \in T
    BY <1>3, <1>4
  <1>6. QED
    BY <1>4, <1>5 DEF first

\* f is whether a task runs, line by line, from off to end.
TasksRunTo(f, lines, running, off, end) ==
  f = [i \in off..end |-> IF i = off THEN running ELSE TaskRuns(f[i - 1], lines[i])]

\* Every portion of a child's rollout can be followed.
LEMMA TasksExists ==
  ASSUME NEW lines, NEW running, NEW off \in Nat, NEW n \in Nat
  PROVE  \E f : TasksRunTo(f, lines, running, off, off + n)
  <1> DEFINE T == {k \in Nat : \E f : TasksRunTo(f, lines, running, off, off + k)}
  <1>1. 0 \in T
    <2>1. TasksRunTo([i \in off..off |-> running], lines, running, off, off + 0)
      BY DEF TasksRunTo
    <2>2. QED
      BY <2>1
  <1>2. ASSUME NEW k \in T PROVE k + 1 \in T
    <2>1. k \in Nat
      OBVIOUS
    <2>2. PICK f : TasksRunTo(f, lines, running, off, off + k)
      OBVIOUS
    <2> DEFINE g == [i \in off..(off + (k + 1)) |->
                       IF i <= off + k THEN f[i] ELSE TaskRuns(f[off + k], lines[i])]
    <2>3. ASSUME NEW i \in off..(off + (k + 1))
          PROVE  g[i] = IF i = off THEN running ELSE TaskRuns(g[i - 1], lines[i])
      <3>1. CASE i <= off + k
        <4>1. i \in off..(off + k) /\ g[i] = f[i] /\ (i # off => g[i - 1] = f[i - 1])
          BY <2>1, <3>1
        <4>2. QED
          BY <2>2, <4>1 DEF TasksRunTo
      <3>2. CASE i > off + k
        <4>1. i = off + k + 1 /\ i # off /\ i - 1 = off + k /\ g[i - 1] = f[off + k]
          BY <2>1, <3>2
        <4>2. QED
          BY <2>1, <4>1
      <3>3. QED
        BY <2>1, <3>1, <3>2
    <2>4. TasksRunTo(g, lines, running, off, off + (k + 1))
      BY <2>3 DEF TasksRunTo
    <2>5. QED
      BY <2>1, <2>4
  <1>3. T = Nat
    BY <1>1, <1>2, AllNaturals
  <1>4. QED
    BY <1>3

\* Followed over the same lines, it is the same.
LEMMA TasksSame ==
  ASSUME NEW lines, NEW lines2, NEW running, NEW off \in Nat, NEW end \in Nat, NEW end2 \in Nat,
         off <= end, end <= end2, NEW f, NEW g,
         TasksRunTo(f, lines, running, off, end), TasksRunTo(g, lines2, running, off, end2),
         \A i \in (off + 1)..end : lines[i] = lines2[i]
  PROVE  f[end] = g[end]
  <1> DEFINE T == {k \in Nat : off + k <= end => f[off + k] = g[off + k]}
  <1>1. 0 \in T
    BY DEF TasksRunTo
  <1>2. ASSUME NEW k \in T PROVE k + 1 \in T
    <2>1. SUFFICES ASSUME off + (k + 1) <= end PROVE f[off + (k + 1)] = g[off + (k + 1)]
      OBVIOUS
    <2>2. f[off + k] = g[off + k] /\ lines[off + (k + 1)] = lines2[off + (k + 1)]
      BY <2>1
    <2>3. /\ off + (k + 1) \in off..end /\ off + (k + 1) \in off..end2
          /\ off + (k + 1) # off /\ (off + (k + 1)) - 1 = off + k
      BY <2>1
    <2>4. /\ f[off + (k + 1)] = TaskRuns(f[off + k], lines[off + (k + 1)])
          /\ g[off + (k + 1)] = TaskRuns(g[off + k], lines2[off + (k + 1)])
      BY <2>3 DEF TasksRunTo
    <2>5. QED
      BY <2>2, <2>4
  <1>3. T = Nat
    BY <1>1, <1>2, AllNaturals
  <1>4. end - off \in Nat /\ off + (end - off) = end
    OBVIOUS
  <1>5. end - off \in T
    BY <1>3, <1>4
  <1>6. QED
    BY <1>4, <1>5

\* TasksRun is the last value of a run.
LEMMA TasksIsRun ==
  ASSUME NEW lines, NEW running, NEW off \in Nat, NEW end \in Nat, off <= end
  PROVE  \E f : TasksRunTo(f, lines, running, off, end) /\ TasksRun(lines, running, off, end) = f[end]
  <1> DEFINE f == CHOOSE f : TasksRunTo(f, lines, running, off, end)
  <1>1. end - off \in Nat /\ off + (end - off) = end
    OBVIOUS
  <1>2. \E g : TasksRunTo(g, lines, running, off, end)
    BY <1>1, TasksExists
  <1>3. TasksRunTo(f, lines, running, off, end)
    BY <1>2
  <1>4. TasksRun(lines, running, off, end) = f[end]
    BY DEF TasksRun, TasksRunTo
  <1>5. QED
    BY <1>3, <1>4

\* TasksRun tells of the lines.
LEMMA TasksAgrees ==
  ASSUME NEW lines, NEW lines2, NEW running, NEW off \in Nat, NEW end \in Nat, off <= end,
         \A i \in (off + 1)..end : lines[i] = lines2[i]
  PROVE  TasksRun(lines, running, off, end) = TasksRun(lines2, running, off, end)
  <1>1. PICK f : TasksRunTo(f, lines, running, off, end) /\ TasksRun(lines, running, off, end) = f[end]
    BY TasksIsRun
  <1>2. PICK g : TasksRunTo(g, lines2, running, off, end) /\ TasksRun(lines2, running, off, end) = g[end]
    BY TasksIsRun
  <1>3. end <= end
    OBVIOUS
  <1>4. f[end] = g[end]
    BY <1>1, <1>2, <1>3, TasksSame
  <1>5. QED
    BY <1>1, <1>2, <1>4

\* No lines tell nothing new.
LEMMA TasksNothing ==
  ASSUME NEW lines, NEW running, NEW off \in Nat
  PROVE  TasksRun(lines, running, off, off) = running
  <1>1. PICK f : TasksRunTo(f, lines, running, off, off) /\ TasksRun(lines, running, off, off) = f[off]
    BY TasksIsRun
  <1>2. QED
    BY <1>1 DEF TasksRunTo

\* It goes on with its next line.
LEMMA TasksNext ==
  ASSUME NEW lines, NEW running, NEW off \in Nat, NEW end \in Nat, off <= end
  PROVE  TasksRun(lines, running, off, end + 1)
           = TaskRuns(TasksRun(lines, running, off, end), lines[end + 1])
  <1>0. end + 1 \in Nat /\ off <= end + 1 /\ end <= end + 1
    OBVIOUS
  <1>1. PICK f : TasksRunTo(f, lines, running, off, end) /\ TasksRun(lines, running, off, end) = f[end]
    BY TasksIsRun
  <1>2. PICK g : TasksRunTo(g, lines, running, off, end + 1) /\ TasksRun(lines, running, off, end + 1) = g[end + 1]
    BY <1>0, TasksIsRun
  <1>3. f[end] = g[end]
    BY <1>0, <1>1, <1>2, TasksSame
  <1>4. end + 1 \in off..(end + 1) /\ end + 1 # off /\ (end + 1) - 1 = end
    OBVIOUS
  <1>5. g[end + 1] = TaskRuns(g[end], lines[end + 1])
    BY <1>2, <1>4 DEF TasksRunTo
  <1>6. QED
    BY <1>1, <1>2, <1>3, <1>5

\* Followed in portions or at once, the child's tasks are the same.
LEMMA TasksPortions ==
  ASSUME NEW lines, NEW running, NEW off \in Nat, NEW mid \in Nat, NEW end \in Nat,
         off <= mid, mid <= end
  PROVE  TasksRun(lines, TasksRun(lines, running, off, mid), mid, end) = TasksRun(lines, running, off, end)
  <1> DEFINE first == TasksRun(lines, running, off, mid)
             T == {k \in Nat : TasksRun(lines, first, mid, mid + k) = TasksRun(lines, running, off, mid + k)}
  <1> HIDE DEF first
  <1>1. 0 \in T
    <2>1. TasksRun(lines, first, mid, mid) = first
      BY TasksNothing DEF first
    <2>2. mid + 0 = mid
      OBVIOUS
    <2>3. QED
      BY <2>1, <2>2 DEF first
  <1>2. ASSUME NEW k \in Nat, TasksRun(lines, first, mid, mid + k) = TasksRun(lines, running, off, mid + k)
        PROVE  TasksRun(lines, first, mid, mid + (k + 1)) = TasksRun(lines, running, off, mid + (k + 1))
    <2>1. PICK at \in Nat : at = mid + k /\ mid + (k + 1) = at + 1 /\ off <= at /\ mid <= at
      OBVIOUS
    <2>2. TasksRun(lines, first, mid, at + 1) = TaskRuns(TasksRun(lines, first, mid, at), lines[at + 1])
      BY <2>1, TasksNext
    <2>3. TasksRun(lines, running, off, at + 1) = TaskRuns(TasksRun(lines, running, off, at), lines[at + 1])
      <3>1. off \in Nat /\ at \in Nat /\ off <= at
        BY <2>1
      <3>2. QED
        BY <3>1, TasksNext, ZenonT(60)
    <2>4. QED
      BY <1>2, <2>1, <2>2, <2>3
  <1>3. T = Nat
    <2>1. \A k \in T : k + 1 \in T
      BY <1>2
    <2>2. QED
      BY <1>1, <2>1, AllNaturals
  <1>4. end - mid \in Nat /\ mid + (end - mid) = end
    OBVIOUS
  <1>5. end - mid \in T
    BY <1>3, <1>4
  <1>6. QED
    BY <1>4, <1>5 DEF first

\* Does a task run after the first lines of a child's rollout?
Ran(lines, end) == TasksRun(lines, FALSE, 0, end)

\* Before the first line none does; then it goes on with the next.
LEMMA RanNext ==
  ASSUME NEW lines
  PROVE  /\ Ran(lines, 0) = FALSE
         /\ \A end \in Nat : Ran(lines, end + 1) = TaskRuns(Ran(lines, end), lines[end + 1])
  <1>1. PICK busy : busy = FALSE
    OBVIOUS
  <1>2. TasksRun(lines, busy, 0, 0) = busy
    BY TasksNothing
  <1>3. ASSUME NEW end \in Nat
        PROVE  TasksRun(lines, busy, 0, end + 1) = TaskRuns(TasksRun(lines, busy, 0, end), lines[end + 1])
    <2>1. 0 \in Nat /\ 0 <= end
      OBVIOUS
    <2>2. QED
      BY <2>1, TasksNext
  <1>4. QED
    BY <1>1, <1>2, <1>3, Zenon DEF Ran

\* It tells of the lines, whatever follows them.
LEMMA RanAgrees ==
  ASSUME NEW lines, NEW lines2, NEW end \in Nat, \A i \in 1..end : lines[i] = lines2[i]
  PROVE  Ran(lines, end) = Ran(lines2, end)
  <1>1. PICK busy : busy = FALSE
    OBVIOUS
  <1>2. 0 \in Nat /\ 0 <= end /\ \A i \in (0 + 1)..end : lines[i] = lines2[i]
    OBVIOUS
  <1>3. TasksRun(lines, busy, 0, end) = TasksRun(lines2, busy, 0, end)
    BY <1>2, TasksAgrees
  <1>4. QED
    BY <1>1, <1>3, Zenon DEF Ran

\* It is told in portions, too.
LEMMA RanPortions ==
  ASSUME NEW lines, NEW mid \in Nat, NEW end \in Nat, mid <= end
  PROVE  TasksRun(lines, Ran(lines, mid), mid, end) = Ran(lines, end)
  <1>1. PICK busy : busy = FALSE
    OBVIOUS
  <1>2. 0 \in Nat /\ 0 <= mid
    OBVIOUS
  <1>3. TasksRun(lines, TasksRun(lines, busy, 0, mid), mid, end) = TasksRun(lines, busy, 0, end)
    BY <1>2, TasksPortions
  <1>4. QED
    BY <1>1, <1>3, Zenon DEF Ran

\* A task runs or it does not.
LEMMA RanTyped ==
  ASSUME NEW lines
  PROVE  \A end \in Nat : Ran(lines, end) \in BOOLEAN
  <1> DEFINE T == {k \in Nat : Ran(lines, k) \in BOOLEAN}
  <1>1. 0 \in T
    BY RanNext
  <1>2. ASSUME NEW k \in Nat PROVE Ran(lines, k + 1) \in BOOLEAN
    <2>1. Ran(lines, k + 1) = TaskRuns(Ran(lines, k), lines[k + 1])
      BY RanNext
    <2>2. TaskRuns(Ran(lines, k), lines[k + 1]) \in BOOLEAN
      BY Zenon DEF TaskRuns
    <2>3. QED
      BY <2>1, <2>2
  <1>3. T = Nat
    <2>1. \A k \in T : k + 1 \in T
      BY <1>2
    <2>2. QED
      BY <1>1, <2>1, AllNaturals
  <1>4. QED
    BY <1>3
\* f is the log line by line, from off to end.
EntriesRun(f, eng, lines, off, end) ==
  f = [i \in off..end |-> IF i = off THEN <<>> ELSE LogLine(eng, f[i - 1], lines[i], i)]

\* Every portion has its entries.
LEMMA EntriesExists ==
  ASSUME NEW eng, NEW lines, NEW off \in Nat, NEW n \in Nat
  PROVE  \E f : EntriesRun(f, eng, lines, off, off + n)
  <1> DEFINE T == {k \in Nat : \E f : EntriesRun(f, eng, lines, off, off + k)}
  <1>1. 0 \in T
    <2>1. EntriesRun([i \in off..off |-> <<>>], eng, lines, off, off + 0)
      BY DEF EntriesRun
    <2>2. QED
      BY <2>1
  <1>2. ASSUME NEW k \in T PROVE k + 1 \in T
    <2>1. k \in Nat
      OBVIOUS
    <2>2. PICK f : EntriesRun(f, eng, lines, off, off + k)
      OBVIOUS
    <2> DEFINE g == [i \in off..(off + (k + 1)) |->
                       IF i <= off + k THEN f[i] ELSE LogLine(eng, f[off + k], lines[i], i)]
    <2>3. ASSUME NEW i \in off..(off + (k + 1))
          PROVE  g[i] = IF i = off THEN <<>> ELSE LogLine(eng, g[i - 1], lines[i], i)
      <3>1. CASE i <= off + k
        <4>1. i \in off..(off + k) /\ g[i] = f[i] /\ (i # off => g[i - 1] = f[i - 1])
          BY <2>1, <3>1
        <4>2. QED
          BY <2>2, <4>1 DEF EntriesRun
      <3>2. CASE i > off + k
        <4>1. i = off + k + 1 /\ i # off /\ i - 1 = off + k /\ g[i - 1] = f[off + k]
          BY <2>1, <3>2
        <4>2. QED
          BY <2>1, <4>1
      <3>3. QED
        BY <2>1, <3>1, <3>2
    <2>4. EntriesRun(g, eng, lines, off, off + (k + 1))
      BY <2>3 DEF EntriesRun
    <2>5. QED
      BY <2>1, <2>4
  <1>3. T = Nat
    BY <1>1, <1>2, AllNaturals
  <1>4. QED
    BY <1>3

\* Such runs over the same lines have the same values.
LEMMA EntriesSame ==
  ASSUME NEW eng, NEW lines, NEW lines2, NEW off \in Nat, NEW end \in Nat, NEW end2 \in Nat,
         off <= end, end <= end2, NEW f, NEW g,
         EntriesRun(f, eng, lines, off, end), EntriesRun(g, eng, lines2, off, end2),
         \A i \in (off + 1)..end : lines[i] = lines2[i]
  PROVE  f[end] = g[end]
  <1> DEFINE T == {k \in Nat : off + k <= end => f[off + k] = g[off + k]}
  <1>1. 0 \in T
    BY DEF EntriesRun
  <1>2. ASSUME NEW k \in T PROVE k + 1 \in T
    <2>1. SUFFICES ASSUME off + (k + 1) <= end PROVE f[off + (k + 1)] = g[off + (k + 1)]
      OBVIOUS
    <2>2. f[off + k] = g[off + k] /\ lines[off + (k + 1)] = lines2[off + (k + 1)]
      BY <2>1
    <2>3. /\ off + (k + 1) \in off..end /\ off + (k + 1) \in off..end2
          /\ off + (k + 1) # off /\ (off + (k + 1)) - 1 = off + k
      BY <2>1
    <2>4. /\ f[off + (k + 1)] = LogLine(eng, f[off + k], lines[off + (k + 1)], off + (k + 1))
          /\ g[off + (k + 1)] = LogLine(eng, g[off + k], lines2[off + (k + 1)], off + (k + 1))
      BY <2>3 DEF EntriesRun
    <2>5. QED
      BY <2>2, <2>4
  <1>3. T = Nat
    BY <1>1, <1>2, AllNaturals
  <1>4. end - off \in Nat /\ off + (end - off) = end
    OBVIOUS
  <1>5. end - off \in T
    BY <1>3, <1>4
  <1>6. QED
    BY <1>4, <1>5

\* Entries is the last value of a run.
LEMMA EntriesIsRun ==
  ASSUME NEW eng, NEW lines, NEW off \in Nat, NEW end \in Nat, off <= end
  PROVE  \E f : EntriesRun(f, eng, lines, off, end) /\ Entries(eng, lines, off, end) = f[end]
  <1> DEFINE f == CHOOSE f : EntriesRun(f, eng, lines, off, end)
  <1>1. end - off \in Nat /\ off + (end - off) = end
    OBVIOUS
  <1>2. \E g : EntriesRun(g, eng, lines, off, end)
    BY <1>1, EntriesExists
  <1>3. EntriesRun(f, eng, lines, off, end)
    BY <1>2
  <1>4. Entries(eng, lines, off, end) = f[end]
    BY DEF Entries, EntriesRun
  <1>5. QED
    BY <1>3, <1>4

\* Entries are those of the lines.
LEMMA EntriesAgrees ==
  ASSUME NEW eng, NEW lines, NEW lines2, NEW off \in Nat, NEW end \in Nat, off <= end,
         \A i \in (off + 1)..end : lines[i] = lines2[i]
  PROVE  Entries(eng, lines, off, end) = Entries(eng, lines2, off, end)
  <1>1. PICK f : EntriesRun(f, eng, lines, off, end) /\ Entries(eng, lines, off, end) = f[end]
    BY EntriesIsRun
  <1>2. PICK g : EntriesRun(g, eng, lines2, off, end) /\ Entries(eng, lines2, off, end) = g[end]
    BY EntriesIsRun
  <1>3. end <= end
    OBVIOUS
  <1>4. f[end] = g[end]
    BY <1>1, <1>2, <1>3, EntriesSame
  <1>5. QED
    BY <1>1, <1>2, <1>4

\* No lines have no entries.
LEMMA EntriesNothing ==
  ASSUME NEW eng, NEW lines, NEW off \in Nat
  PROVE  Entries(eng, lines, off, off) = <<>>
  <1>1. PICK f : EntriesRun(f, eng, lines, off, off) /\ Entries(eng, lines, off, off) = f[off]
    BY EntriesIsRun
  <1>2. QED
    BY <1>1 DEF EntriesRun

\* The entries go on with those of the next line.
LEMMA EntriesNext ==
  ASSUME NEW eng, NEW lines, NEW off \in Nat, NEW end \in Nat, off <= end
  PROVE  Entries(eng, lines, off, end + 1)
           = LogLine(eng, Entries(eng, lines, off, end), lines[end + 1], end + 1)
  <1>0. end + 1 \in Nat /\ off <= end + 1 /\ end <= end + 1
    OBVIOUS
  <1>1. PICK f : EntriesRun(f, eng, lines, off, end) /\ Entries(eng, lines, off, end) = f[end]
    BY EntriesIsRun
  <1>2. PICK g : EntriesRun(g, eng, lines, off, end + 1) /\ Entries(eng, lines, off, end + 1) = g[end + 1]
    BY <1>0, EntriesIsRun
  <1>3. f[end] = g[end]
    BY <1>0, <1>1, <1>2, EntriesSame
  <1>4. end + 1 \in off..(end + 1) /\ end + 1 # off /\ (end + 1) - 1 = end
    OBVIOUS
  <1>5. g[end + 1] = LogLine(eng, g[end], lines[end + 1], end + 1)
    BY <1>2, <1>4 DEF EntriesRun
  <1>6. QED
    BY <1>1, <1>2, <1>3, <1>5

\* An entry of the log, numbered in its line.
LogEntry == [role : {"user", "queued", "assistant", "activity"}, at : Nat \X {1, 2}]

\* A line has two entries in the log at most, which are its own.
LEMMA LineEntries ==
  ASSUME NEW eng, NEW line, NEW at \in Nat
  PROVE  LET s == Logged(Parse(eng, line, at))
         IN  /\ s \in Seq(LogEntry) /\ Len(s) \in 0..2
             /\ \A i \in 1..Len(s) : s[i].at = <<at, i>>
  <1> DEFINE s == Logged(Parse(eng, line, at))
  <1> SUFFICES /\ s \in Seq(LogEntry) /\ Len(s) \in 0..2
               /\ \A i \in 1..Len(s) : s[i].at = <<at, i>>
    OBVIOUS
  <1>1. CASE s = <<>>
    BY <1>1
  <1>2. ASSUME NEW roles \in {<<"user">>, <<"queued">>, <<"assistant">>, <<"activity">>, <<"assistant", "activity">>},
               s = [i \in DOMAIN roles |-> [role |-> roles[i], at |-> <<at, i>>]]
        PROVE  /\ s \in Seq(LogEntry) /\ Len(s) \in 0..2
               /\ \A i \in 1..Len(s) : s[i].at = <<at, i>>
    <2>1. \/ roles \in [1..1 -> {"user", "queued", "assistant", "activity"}]
          \/ roles \in [1..2 -> {"user", "queued", "assistant", "activity"}]
      BY <1>2
    <2>2. PICK n \in {1, 2} : s \in [1..n -> LogEntry] /\ \A i \in 1..n : s[i].at = <<at, i>>
      BY <1>2, <2>1 DEF LogEntry
    <2>3. QED
      BY <2>2
  <1>3. ASSUME NEW roles, roles \in {<<"turn_end">>, <<"compact_end">>},
               Parse(eng, line, at) = [i \in DOMAIN roles |-> [role |-> roles[i], at |-> <<at, i>>]]
        PROVE  s = <<>>
    <2>1. 1 \in DOMAIN roles /\ roles[1] \in {"turn_end", "compact_end"}
      BY <1>3
    <2>2. QED
      BY <1>3, <2>1 DEF Logged
  <1>4. \A kind \in DOMAIN ClaudeRoles :
          ClaudeRoles[kind] \in {<<"user">>, <<"queued">>, <<"assistant">>, <<"activity">>, <<"assistant", "activity">>,
                                <<"turn_end">>, <<"compact_end">>}
    BY DEF ClaudeRoles
  <1>5. \A kind \in DOMAIN CodexRoles :
          CodexRoles[kind] \in {<<"user">>, <<"assistant">>, <<"activity">>, <<"turn_end">>}
    BY DEF CodexRoles
  <1>6. \/ Parse(eng, line, at) = <<>>
        \/ \E roles \in {<<"user">>, <<"queued">>, <<"assistant">>, <<"activity">>, <<"assistant", "activity">>,
                         <<"turn_end">>, <<"compact_end">>} :
             Parse(eng, line, at) = [i \in DOMAIN roles |-> [role |-> roles[i], at |-> <<at, i>>]]
    <2>1. CASE eng = "codex"
      BY <1>5, <2>1 DEF Parse, ParseCodex
    <2>2. CASE eng # "codex"
      BY <1>4, <2>2 DEF Parse, ParseClaude
    <2>3. QED
      BY <2>1, <2>2
  <1>7. s \in {<<>>, Parse(eng, line, at)}
    BY DEF Logged
  <1>8. QED
    BY <1>1, <1>2, <1>3, <1>6, <1>7

\* The entries of any lines are log.
LEMMA EntriesAreLog ==
  ASSUME NEW eng, NEW lines, NEW off \in Nat, NEW end \in Nat, off <= end
  PROVE  Entries(eng, lines, off, end) \in Seq(LogEntry)
  <1> DEFINE T == {k \in Nat : Entries(eng, lines, off, off + k) \in Seq(LogEntry)}
  <1>1. 0 \in T
    <2>1. Entries(eng, lines, off, off) = <<>> /\ off + 0 = off
      BY EntriesNothing
    <2>2. QED
      BY <2>1
  <1>2. ASSUME NEW k \in T PROVE k + 1 \in T
    <2>1. /\ off + k \in Nat /\ off <= off + k
          /\ off + (k + 1) = (off + k) + 1 /\ (off + k) + 1 \in Nat
      OBVIOUS
    <2>2. Entries(eng, lines, off, (off + k) + 1)
            = LogLine(eng, Entries(eng, lines, off, off + k), lines[(off + k) + 1], (off + k) + 1)
      BY <2>1, EntriesNext
    <2>3. Logged(Parse(eng, lines[(off + k) + 1], (off + k) + 1)) \in Seq(LogEntry)
      BY <2>1, LineEntries
    <2>4. Entries(eng, lines, off, (off + k) + 1) \in Seq(LogEntry)
      BY <2>2, <2>3, ConcatProperties DEF LogLine
    <2>5. QED
      BY <2>1, <2>4
  <1>3. T = Nat
    BY <1>1, <1>2, AllNaturals
  <1>4. end - off \in Nat /\ off + (end - off) = end
    OBVIOUS
  <1>5. end - off \in T
    BY <1>3, <1>4
  <1>6. QED
    BY <1>4, <1>5

\* Read in portions or at once, the lines have the same entries.
LEMMA EntriesPortions ==
  ASSUME NEW eng, NEW lines, NEW off \in Nat, NEW mid \in Nat, NEW end \in Nat, off <= mid, mid <= end
  PROVE  Entries(eng, lines, off, mid) \o Entries(eng, lines, mid, end) = Entries(eng, lines, off, end)
  <1> DEFINE first == Entries(eng, lines, off, mid)
             T == {k \in Nat : first \o Entries(eng, lines, mid, mid + k) = Entries(eng, lines, off, mid + k)}
  <1>0. first \in Seq(LogEntry)
    BY EntriesAreLog
  <1>1. 0 \in T
    <2>1. Entries(eng, lines, mid, mid) = <<>> /\ mid + 0 = mid
      BY EntriesNothing
    <2>2. first \o <<>> = first
      BY <1>0, ConcatEmptySeq
    <2>3. QED
      BY <2>1, <2>2
  <1>2. ASSUME NEW k \in Nat, first \o Entries(eng, lines, mid, mid + k) = Entries(eng, lines, off, mid + k)
        PROVE  first \o Entries(eng, lines, mid, mid + (k + 1)) = Entries(eng, lines, off, mid + (k + 1))
    <2>1. PICK at \in Nat : at = mid + k /\ mid + (k + 1) = at + 1 /\ off <= at /\ mid <= at
      OBVIOUS
    <2>2. PICK line \in Seq(LogEntry) : line = Logged(Parse(eng, lines[at + 1], at + 1))
      BY LineEntries
    <2>3. /\ Entries(eng, lines, mid, at + 1) = LogLine(eng, Entries(eng, lines, mid, at), lines[at + 1], at + 1)
          /\ Entries(eng, lines, off, at + 1) = LogLine(eng, Entries(eng, lines, off, at), lines[at + 1], at + 1)
      BY <2>1, EntriesNext
    <2>4. /\ Entries(eng, lines, mid, at + 1) = Entries(eng, lines, mid, at) \o line
          /\ Entries(eng, lines, off, at + 1) = Entries(eng, lines, off, at) \o line
      BY <2>2, <2>3 DEF LogLine
    <2>5. (first \o Entries(eng, lines, mid, at)) \o line = first \o (Entries(eng, lines, mid, at) \o line)
      BY <1>0, <2>1, EntriesAreLog, ConcatAssociative
    <2>6. QED
      BY <1>2, <2>1, <2>4, <2>5
  <1>3. T = Nat
    <2>1. \A k \in T : k + 1 \in T
      BY <1>2
    <2>2. QED
      BY <1>1, <2>1, AllNaturals
  <1>4. end - mid \in Nat /\ mid + (end - mid) = end
    OBVIOUS
  <1>5. end - mid \in T
    BY <1>3, <1>4
  <1>6. QED
    BY <1>4, <1>5

-----------------------------------------------------------------------------
(* The inductive invariants.                                               *)

Lines == [kind : LineKinds, id : Nat, sep : BOOLEAN]

\* A session with n lines in its file.
Real(n) ==
  [turn : {"idle", "busy", "compacting", "recap"}, woken : BOOLEAN, failed : BOOLEAN,
   agents : SUBSET (1..n), async : SUBSET (1..n), context : 0..n, split : BOOLEAN]

Kid == [there : BOOLEAN, here : BOOLEAN, file : Seq(Lines), open : BOOLEAN, busy : BOOLEAN]

\* The session and its files.
FileInv ==
  /\ engine \in {"claude", "codex"} /\ reader \in {"cards", "log"}
  /\ file \in Seq(Lines) /\ kid \in Kid
  /\ Len(file) + Len(kid.file) <= MostLines
  /\ \A i \in DOMAIN file : file[i].id <= Len(file)
  /\ open \in BOOLEAN /\ (open => file # <<>>) /\ (kid.open => kid.file # <<>>)
  /\ real \in Real(Len(file))

Vitals == [thinking : BOOLEAN, error : BOOLEAN, agents : SUBSET Nat, context : Nat]

Cards ==
  [off : Nat, seen : Vitals, child : BOOLEAN, childoff : Nat, active : BOOLEAN, polled : BOOLEAN]

\* What a card is to say of the session.
Seen(r) ==
  [thinking |-> r.turn \in {"busy", "compacting"}, error |-> r.failed, agents |-> r.agents, context |-> r.context]

\* The lines of the file say what the session does, and those of the child's
\* rollout whether it is busy.
RealInv ==
  /\ ~real.split => Scan(engine, file, Fresh, 0, Len(file)) = Seen(real)
  /\ kid.busy = Ran(kid.file, Len(kid.file))
  /\ kid.busy => kid.there

\* The card says what the lines it has read say.
CardInv ==
  /\ vitals \in Cards
  /\ vitals.off <= Whole /\ vitals.childoff <= Complete(kid.file, kid.open)
  /\ vitals.seen = Scan(engine, file, Fresh, 0, vitals.off)
  /\ vitals.seen.context <= vitals.off
  /\ vitals.active = Ran(kid.file, vitals.childoff)
  /\ ~vitals.child => vitals.childoff = 0

\* How far in the log the first off lines reach, and a log's stretches to there.
Come(off) == Len(Entries(engine, file, 0, off))

Stretches(log, n) == {SubSeq(log, i, n) : i \in 1..(n + 1)}

Watches == [pc : {"none", "start", "push", "sleep"}, off : Nat, frame : Seq(LogEntry), reset : BOOLEAN]

Phones == [open : BOOLEAN, log : Seq(LogEntry)]

WatchTypes ==
  /\ watch \in Watches /\ watch.off <= Whole /\ phone \in Phones
  /\ conn \in {"up", "dead", "down"} /\ drops \in 0..MaxDrops

\* What the phone shows, shown, is a stretch of the log.  One that is about to be
\* replaced ends before what replaces it does; over a socket that holds, it ends
\* where the watch has read, and what is about to be added goes on from its end.
Follow(w, shown, socket) ==
  /\ \E n \in 0..Len(Log) : shown \in Stretches(Log, n)
  /\ socket = "down" => w.pc = "none"
  /\ w.pc = "push" /\ w.reset =>
       /\ w.frame \in Stretches(Log, Come(w.off))
       /\ \E n \in 0..Come(w.off) : shown \in Stretches(Log, n)
  /\ w.pc = "push" /\ ~w.reset /\ socket = "up" =>
       \E n \in 0..Come(w.off) : shown \in Stretches(Log, n) /\ w.frame = SubSeq(Log, n + 1, Come(w.off))
  /\ w.pc = "sleep" /\ socket = "up" => shown \in Stretches(Log, Come(w.off))

FeedInv == Follow(watch, phone.log, conn)

Inv == FileInv /\ RealInv /\ CardInv /\ WatchTypes /\ FeedInv

-----------------------------------------------------------------------------
(* What the session writes.                                                *)

\* The lines that are written are known, and say what the session comes to do.
Follows(line, r) ==
  /\ line \in Lines /\ line.id <= At /\ r \in Real(At) /\ r.split = real.split
  /\ ~line.sep => ScanLine(engine, Seen(real), line, At) = Seen(r)

\* A line of a kind that is known is a line.
LEMMA LineTyped ==
  ASSUME NEW kind \in {"text", "queue", "say", "act", "call", "apierror", "end", "boundary", "slash", "result", "ack",
                       "notice", "queuenotice", "summary", "sidechain", "meta", "user_message", "agent_message",
                       "function_call", "task_complete", "session_meta", "task_started", "turn_aborted",
                       "token_count", "error", "stream_error", "item"},
         NEW id \in Nat, NEW sep \in BOOLEAN
  PROVE  /\ Line(kind, id, sep) \in Lines
         /\ Line(kind, id, sep).kind = kind /\ Line(kind, id, sep).id = id /\ Line(kind, id, sep).sep = sep
  <1>1. kind \in LineKinds
    <2>1. /\ DOMAIN ClaudeRoles = {"text", "queue", "say", "act", "call", "apierror", "end", "boundary"}
          /\ DOMAIN CodexRoles = {"user_message", "agent_message", "function_call", "task_complete"}
      BY DEF ClaudeRoles, CodexRoles
    <2>2. QED
      BY <2>1 DEF LineKinds, ClaudeSilent, CodexSilent
  <1>2. QED
    BY <1>1 DEF Line, Lines

\* A session that does what it did before has written one more line.
LEMMA RealGrows ==
  ASSUME FileInv
  PROVE  /\ At \in Nat \ {0} /\ At = Len(file) + 1 /\ Len(file) \in Nat /\ real \in Real(At)
         /\ real.agents \subseteq 1..At /\ real.async \subseteq 1..At /\ real.context \in 0..At
         /\ real.turn \in {"idle", "busy", "compacting", "recap"}
         /\ real.failed \in BOOLEAN /\ real.woken \in BOOLEAN /\ real.split \in BOOLEAN
  <1>1. Len(file) \in Nat
    BY LenProperties DEF FileInv
  <1>2. real \in Real(Len(file))
    BY DEF FileInv
  <1>3. QED
    BY <1>1, <1>2 DEF Real, At

\* What a session with n lines is made of.
LEMMA RealMade ==
  ASSUME NEW n \in Nat, NEW turn \in {"idle", "busy", "compacting", "recap"}, NEW woken \in BOOLEAN,
         NEW failed \in BOOLEAN, NEW agents \in SUBSET (1..n), NEW async \in SUBSET (1..n),
         NEW context \in 0..n, NEW split \in BOOLEAN
  PROVE  [turn |-> turn, woken |-> woken, failed |-> failed, agents |-> agents, async |-> async,
          context |-> context, split |-> split] \in Real(n)
  BY DEF Real

\* What is left of it when it produces, and more.
LEMMA RealChanges ==
  ASSUME NEW n \in Nat, NEW q \in Real(n)
  PROVE  /\ [q EXCEPT !.context = n]
              = [turn |-> q.turn, woken |-> q.woken, failed |-> q.failed, agents |-> q.agents,
                 async |-> q.async, context |-> n, split |-> q.split]
         /\ [q EXCEPT !.turn = "recap", !.context = n]
              = [turn |-> "recap", woken |-> q.woken, failed |-> q.failed, agents |-> q.agents,
                 async |-> q.async, context |-> n, split |-> q.split]
         /\ [q EXCEPT !.turn = "busy", !.woken = FALSE, !.failed = FALSE, !.context = n]
              = [turn |-> "busy", woken |-> FALSE, failed |-> FALSE, agents |-> q.agents,
                 async |-> q.async, context |-> n, split |-> q.split]
         /\ [[q EXCEPT !.turn = "busy", !.woken = FALSE, !.failed = FALSE, !.context = n] EXCEPT !.agents = @ \cup {n}]
              = [turn |-> "busy", woken |-> FALSE, failed |-> FALSE, agents |-> q.agents \cup {n},
                 async |-> q.async, context |-> n, split |-> q.split]
  <1>1. q = [turn |-> q.turn, woken |-> q.woken, failed |-> q.failed, agents |-> q.agents,
             async |-> q.async, context |-> q.context, split |-> q.split]
    BY DEF Real
  <1>2. [q EXCEPT !.context = n]
          = [turn |-> q.turn, woken |-> q.woken, failed |-> q.failed, agents |-> q.agents,
             async |-> q.async, context |-> n, split |-> q.split]
    BY <1>1
  <1>3. ASSUME NEW r, r = [q EXCEPT !.turn = "recap", !.context = n]
        PROVE  r = [turn |-> "recap", woken |-> q.woken, failed |-> q.failed, agents |-> q.agents,
                    async |-> q.async, context |-> n, split |-> q.split]
    BY <1>3 DEF Real
  <1>4. ASSUME NEW r, r = [q EXCEPT !.turn = "busy", !.woken = FALSE, !.failed = FALSE, !.context = n]
        PROVE  r = [turn |-> "busy", woken |-> FALSE, failed |-> FALSE, agents |-> q.agents,
                    async |-> q.async, context |-> n, split |-> q.split]
    BY <1>4 DEF Real
  <1>5. ASSUME NEW r,
               r = [[q EXCEPT !.turn = "busy", !.woken = FALSE, !.failed = FALSE, !.context = n]
                      EXCEPT !.agents = @ \cup {n}]
        PROVE  r = [turn |-> "busy", woken |-> FALSE, failed |-> FALSE, agents |-> q.agents \cup {n},
                    async |-> q.async, context |-> n, split |-> q.split]
    BY <1>5 DEF Real
  <1>6. QED
    BY <1>2, <1>3, <1>4, <1>5, Zenon

\* What a line of Claude's changes is what the card makes of it.
LEMMA ClaudeSays ==
  ASSUME FileInv, engine = "claude",
         NEW kind \in {"text", "queue", "say", "act", "call", "apierror", "end", "boundary", "slash", "result", "ack",
                       "notice", "queuenotice", "summary", "sidechain", "meta"},
         NEW id \in Nat, id <= At, NEW sep \in BOOLEAN, NEW r \in Real(At), r.split = real.split,
         (r.turn \in {"busy", "compacting"})
           <=> /\ kind \notin {"end", "boundary"}
               /\ \/ kind \in {"say", "act", "call", "text", "slash", "result", "ack"}
                  \/ real.turn \in {"busy", "compacting"},
         r.failed <=> kind = "apierror" \/ (real.failed /\ kind \notin {"say", "act", "call", "text", "slash"}),
         \A agent : agent \in r.agents
                       <=> \/ agent \in real.agents /\ ~(kind \in {"result", "notice", "queuenotice"} /\ agent = id)
                           \/ kind = "call" /\ agent = id,
         r.context = IF kind \in {"say", "act", "call", "boundary"} THEN At ELSE real.context
  PROVE  Follows(Line(kind, id, sep), r)
  <1> DEFINE v == Seen(real)
  <1>1. PICK line \in Lines : line = Line(kind, id, sep) /\ line.kind = kind /\ line.id = id /\ line.sep = sep
    BY LineTyped
  <1>2. /\ real.failed \in BOOLEAN /\ r.failed \in BOOLEAN
    <2>1. real \in Real(At)
      BY RealGrows
    <2>2. QED
      BY <2>1 DEF Real
  <1>3. /\ v.thinking = (real.turn \in {"busy", "compacting"}) /\ v.error = real.failed
        /\ v.agents = real.agents /\ v.context = real.context
    BY DEF Seen
  <1>4. CASE ~sep
    <2>1. ScanLine(engine, v, line, At) =
            [ thinking |-> ThinkingAfter(v, line),
              error    |-> IF line.kind = "apierror" THEN TRUE
                           ELSE v.error /\ line.kind \notin Produced \cup {"text", "slash"},
              agents   |-> (v.agents \ Finished(line)) \cup (IF line.kind = "call" THEN {line.id} ELSE {}),
              context  |-> IF line.kind \in Produced \cup {"boundary"} THEN At ELSE v.context ]
      BY <1>1, <1>4, Zenon DEF ScanLine, ScanClaude
    <2>2. ThinkingAfter(v, line) = (r.turn \in {"busy", "compacting"})
      <3>1. v.thinking = (real.turn \in {"busy", "compacting"})
        BY <1>3, Zenon
      <3>2. ThinkingAfter(v, line) <=> r.turn \in {"busy", "compacting"}
        BY <1>1, <3>1 DEF ThinkingAfter, Produced
      <3>3. ThinkingAfter(v, line) \in BOOLEAN
        BY Zenon DEF ThinkingAfter
      <3>4. (r.turn \in {"busy", "compacting"}) \in BOOLEAN
        BY SMT
      <3> DEFINE before == ThinkingAfter(v, line)
                 after == r.turn \in {"busy", "compacting"}
      <3>5. before \in BOOLEAN /\ after \in BOOLEAN /\ (before <=> after)
        BY <3>2, <3>3, <3>4
      <3> HIDE DEF before, after
      <3>6. before = after
        BY <3>5
      <3>7. QED
        BY <3>6 DEF before, after
    <2>3. (IF line.kind = "apierror" THEN TRUE ELSE v.error /\ line.kind \notin Produced \cup {"text", "slash"})
            = r.failed
      BY <1>1, <1>2, <1>3 DEF Produced
    <2>4. (v.agents \ Finished(line)) \cup (IF line.kind = "call" THEN {line.id} ELSE {}) = r.agents
      BY <1>1, <1>3 DEF Finished
    <2>5. (IF line.kind \in Produced \cup {"boundary"} THEN At ELSE v.context) = r.context
      BY <1>1, <1>3 DEF Produced
    <2>6. ScanLine(engine, v, line, At) = Seen(r)
      BY <2>1, <2>2, <2>3, <2>4, <2>5, Zenon DEF Seen
    <2>7. QED
      BY <1>1, <2>6 DEF Follows
  <1>5. QED
    BY <1>1, <1>4 DEF Follows

\* The same of Codex's lines.
LEMMA CodexSays ==
  ASSUME FileInv, engine = "codex",
         NEW kind \in {"user_message", "agent_message", "function_call", "task_complete", "session_meta",
                       "task_started", "turn_aborted", "token_count", "error", "stream_error", "item"},
         NEW id \in Nat, id <= At, NEW sep \in BOOLEAN, NEW r \in Real(At), r.split = real.split,
         (r.turn \in {"busy", "compacting"})
           <=> /\ kind \notin {"task_complete", "turn_aborted"}
               /\ kind = "task_started" \/ real.turn \in {"busy", "compacting"},
         r.failed <=> kind \in {"error", "stream_error"} \/ (real.failed /\ kind # "task_started"),
         r.agents = real.agents,
         r.context = IF kind = "token_count" THEN At ELSE real.context
  PROVE  Follows(Line(kind, id, sep), r)
  <1> DEFINE v == Seen(real)
  <1>1. PICK line \in Lines : line = Line(kind, id, sep) /\ line.kind = kind /\ line.id = id /\ line.sep = sep
    BY LineTyped
  <1>2. /\ real.failed \in BOOLEAN /\ r.failed \in BOOLEAN
    <2>1. real \in Real(At)
      BY RealGrows
    <2>2. QED
      BY <2>1 DEF Real
  <1>3. CASE ~sep
    <2>1. ScanLine(engine, v, line, At) =
            [ thinking |-> TaskRuns(real.turn \in {"busy", "compacting"}, line),
              error    |-> line.kind \in {"error", "stream_error"} \/ (real.failed /\ line.kind # "task_started"),
              agents   |-> real.agents,
              context  |-> IF line.kind = "token_count" THEN At ELSE real.context ]
      BY <1>1, <1>3, Zenon DEF ScanLine, ScanCodex, Seen
    <2>2. TaskRuns(real.turn \in {"busy", "compacting"}, line) = (r.turn \in {"busy", "compacting"})
      BY <1>1 DEF TaskRuns
    <2>3. (line.kind \in {"error", "stream_error"} \/ (real.failed /\ line.kind # "task_started")) = r.failed
      BY <1>1, <1>2
    <2>4. ScanLine(engine, v, line, At) = Seen(r)
      BY <1>1, <2>1, <2>2, <2>3, Zenon DEF Seen
    <2>5. QED
      BY <1>1, <2>4 DEF Follows
  <1>4. QED
    BY <1>1, <1>3 DEF Follows

\* Every step in which a session of Claude's writes follows.
LEMMA ClaudeWrites ==
  ASSUME FileInv, engine = "claude",
         \/ Prompt \/ Queue \/ Compact \/ Boundary \/ Recap \/ Produce \/ Launch \/ Result
         \/ Notify \/ ApiError \/ EndTurn \/ Aside
  PROVE  \E line, r : Write(line, r) /\ Follows(line, r)
  <1>0. /\ At \in Nat \ {0} /\ real \in Real(At) /\ 0 \in Nat /\ 0 <= At /\ At <= At
        /\ At \in 0..At /\ At \in 1..At
        /\ real.agents \subseteq 1..At /\ real.async \subseteq 1..At
    BY RealGrows
  <1>a. At \in Nat /\ real \in Real(At)
    BY RealGrows
  <1>1. CASE Prompt
    <2> DEFINE r == [real EXCEPT !.turn = "busy", !.failed = FALSE]
    <2>1. PICK sep \in BOOLEAN : Write(Line("text", 0, sep), r)
      BY <1>1 DEF Prompt
    <2>2. /\ r \in Real(At) /\ r.split = real.split /\ r.turn = "busy" /\ r.failed = FALSE
          /\ r.agents = real.agents /\ r.context = real.context
      BY <1>0 DEF Real
    <2>3. Follows(Line("text", 0, sep), r)
      <3> HIDE DEF r
      <3>1. QED
        BY <1>0, <2>1, <2>2, ClaudeSays
    <2>4. QED
      BY <2>1, <2>3
  <1>2. CASE Queue
    <2> DEFINE r == real
    <2>1. Write(Line("queue", 0, FALSE), r) /\ real.turn = "busy"
      BY <1>2 DEF Queue, Claude
    <2>2. /\ r \in Real(At) /\ r.split = real.split /\ r.turn = real.turn /\ r.failed = real.failed
          /\ r.agents = real.agents /\ r.context = real.context
      BY <1>0 DEF Real
    <2>3. Follows(Line("queue", 0, FALSE), r)
      <3> HIDE DEF r
      <3>1. QED
        BY <1>0, <2>1, <2>2, ClaudeSays
    <2>4. QED
      BY <2>1, <2>3
  <1>3. CASE Compact
    <2> DEFINE r == [real EXCEPT !.turn = "compacting", !.failed = FALSE]
    <2>1. Write(Line("slash", 0, FALSE), r)
      BY <1>3 DEF Compact
    <2>2. /\ r \in Real(At) /\ r.split = real.split /\ r.turn = "compacting" /\ r.failed = FALSE
          /\ r.agents = real.agents /\ r.context = real.context
      BY <1>0 DEF Real
    <2>3. Follows(Line("slash", 0, FALSE), r)
      <3> HIDE DEF r
      <3>1. QED
        BY <1>0, <2>1, <2>2, ClaudeSays
    <2>4. QED
      BY <2>1, <2>3
  <1>4. CASE Boundary
    <2> DEFINE r == [real EXCEPT !.turn = "recap", !.context = At]
    <2>1. Write(Line("boundary", 0, FALSE), r)
      BY <1>4 DEF Boundary
    <2>2. /\ r \in Real(At) /\ r.split = real.split /\ r.turn = "recap" /\ r.failed = real.failed
          /\ r.agents = real.agents /\ r.context = At
      <3>1. r = [turn |-> "recap", woken |-> real.woken, failed |-> real.failed, agents |-> real.agents,
                 async |-> real.async, context |-> At, split |-> real.split]
        BY <1>a, RealChanges, Zenon
      <3> HIDE DEF r
      <3>2. r \in Real(At)
        <4>1. real.agents \in SUBSET (1..At) /\ At \in 0..At
          BY <1>0, RealGrows
        <4>2. QED
          BY <1>0, <3>1, <4>1, RealGrows, RealMade, ZenonT(60)
      <3>3. QED
        BY <3>1, <3>2
    <2>3. Follows(Line("boundary", 0, FALSE), r)
      <3> HIDE DEF r
      <3>1. QED
        BY <1>0, <2>1, <2>2, ClaudeSays
    <2>4. QED
      BY <2>1, <2>3
  <1>5. CASE Recap
    <2> DEFINE r == [real EXCEPT !.turn = "idle"]
    <2>1. Write(Line("summary", 0, FALSE), r) /\ real.turn = "recap"
      BY <1>5 DEF Recap, Claude
    <2>2. /\ r \in Real(At) /\ r.split = real.split /\ r.turn = "idle" /\ r.failed = real.failed
          /\ r.agents = real.agents /\ r.context = real.context
      BY <1>0 DEF Real
    <2>3. Follows(Line("summary", 0, FALSE), r)
      <3> HIDE DEF r
      <3>1. QED
        BY <1>0, <2>1, <2>2, ClaudeSays
    <2>4. QED
      BY <2>1, <2>3
  <1>6. CASE Produce
    <2> DEFINE r == Produces(real)
    <2>1. PICK kind \in {"say", "act"}, sep \in BOOLEAN : Write(Line(kind, 0, sep), r)
      BY <1>6 DEF Produce
    <2>2. /\ r \in Real(At) /\ r.split = real.split /\ r.turn = "busy" /\ r.failed = FALSE
          /\ r.agents = real.agents /\ r.context = At
      <3>1. r = [turn |-> "busy", woken |-> FALSE, failed |-> FALSE, agents |-> real.agents,
                 async |-> real.async, context |-> At, split |-> real.split]
        BY <1>a, RealChanges, Zenon DEF Produces
      <3> HIDE DEF r
      <3>2. r \in Real(At)
        <4>1. real.agents \in SUBSET (1..At) /\ At \in 0..At
          BY <1>0, RealGrows
        <4>2. QED
          BY <1>0, <3>1, <4>1, RealGrows, RealMade, ZenonT(60)
      <3>3. QED
        BY <3>1, <3>2
    <2>3. Follows(Line(kind, 0, sep), r)
      <3> HIDE DEF r
      <3>1. QED
        BY <1>0, <2>1, <2>2, ClaudeSays
    <2>4. QED
      BY <2>1, <2>3
  <1>7. CASE Launch
    <2> DEFINE r == [Produces(real) EXCEPT !.agents = @ \cup {At}]
    <2>1. Write(Line("call", At, FALSE), r)
      BY <1>7 DEF Launch
    <2>2. /\ r \in Real(At) /\ r.split = real.split /\ r.turn = "busy" /\ r.failed = FALSE
          /\ r.agents = real.agents \cup {At} /\ r.context = At
      <3>1. r = [turn |-> "busy", woken |-> FALSE, failed |-> FALSE, agents |-> real.agents \cup {At},
                 async |-> real.async, context |-> At, split |-> real.split]
        BY <1>a, RealChanges, Zenon DEF Produces
      <3> HIDE DEF r
      <3>2. r \in Real(At)
        <4>1. real.agents \cup {At} \in SUBSET (1..At) /\ At \in 0..At
          BY <1>0, RealGrows
        <4>2. QED
          BY <1>0, <3>1, <4>1, RealGrows, RealMade, ZenonT(60)
      <3>3. QED
        BY <3>1, <3>2
    <2>3. Follows(Line("call", At, FALSE), r)
      <3> HIDE DEF r
      <3>1. r.agents = (real.agents \ {}) \cup {At}
        BY <2>2
      <3>2. QED
        BY <1>0, <2>1, <2>2, <3>1, ClaudeSays
    <2>4. QED
      BY <2>1, <2>3
  <1>8. CASE Result
    <2>1. PICK id \in real.agents \ real.async :
            \/ Write(Line("result", id, FALSE), [real EXCEPT !.agents = @ \ {id}])
            \/ Write(Line("ack", id, FALSE), [real EXCEPT !.async = @ \cup {id}])
      BY <1>8 DEF Result
    <2>2. id \in Nat /\ id <= At /\ real.turn = "busy" /\ id \in 1..At
      <3>1. real.turn = "busy"
        BY <1>8 DEF Result, Claude
      <3>2. id \in 1..At
        BY <1>0
      <3>3. QED
        BY <1>0, <3>1, <3>2
    <2>3. ASSUME NEW r, r = [real EXCEPT !.agents = @ \ {id}] PROVE Follows(Line("result", id, FALSE), r)
      <3>1. /\ r \in Real(At) /\ r.split = real.split /\ r.turn = real.turn /\ r.failed = real.failed
            /\ r.agents = real.agents \ {id} /\ r.context = real.context
        BY <1>0, <2>3, ZenonT(60) DEF Real
      <3>2. r.agents = (real.agents \ {id}) \cup {}
        BY <3>1
      <3>3. QED
        BY <1>0, <2>2, <3>1, <3>2, ClaudeSays, ZenonT(60)
    <2>4. ASSUME NEW r, r = [real EXCEPT !.async = @ \cup {id}] PROVE Follows(Line("ack", id, FALSE), r)
      <3>1. /\ r \in Real(At) /\ r.split = real.split /\ r.turn = real.turn /\ r.failed = real.failed
            /\ r.agents = real.agents /\ r.context = real.context
        BY <1>0, <2>2, <2>4 DEF Real
      <3>2. QED
        BY <1>0, <2>2, <3>1, ClaudeSays
    <2>5. QED
      BY <2>1, <2>3, <2>4
  <1>9. CASE Notify
    <2>1. PICK id \in real.async :
            Write(Line(IF real.turn = "idle" THEN "notice" ELSE "queuenotice", id, FALSE),
                  [real EXCEPT !.agents = @ \ {id}, !.async = @ \ {id}, !.woken = @ \/ real.turn = "idle"])
      BY <1>9 DEF Notify
    <2> DEFINE r == [real EXCEPT !.agents = @ \ {id}, !.async = @ \ {id}, !.woken = @ \/ real.turn = "idle"]
    <2>2. id \in Nat /\ id <= At
      BY <1>0
    <2>3. /\ r \in Real(At) /\ r.split = real.split /\ r.turn = real.turn /\ r.failed = real.failed
          /\ r.agents = real.agents \ {id} /\ r.context = real.context
      BY <1>0 DEF Real
    <2>4. PICK kind \in {"notice", "queuenotice"} : kind = IF real.turn = "idle" THEN "notice" ELSE "queuenotice"
      OBVIOUS
    <2>5. Follows(Line(kind, id, FALSE), r)
      <3> HIDE DEF r
      <3>1. r.agents = (real.agents \ {id}) \cup {}
        BY <2>3
      <3>2. QED
        BY <1>0, <2>2, <2>3, <3>1, ClaudeSays
    <2>6. QED
      BY <2>1, <2>4, <2>5
  <1>10. CASE ApiError
    <2> DEFINE r == [real EXCEPT !.failed = TRUE]
    <2>1. Write(Line("apierror", 0, FALSE), r) /\ real.turn = "busy"
      BY <1>10 DEF ApiError, Claude
    <2>2. /\ r \in Real(At) /\ r.split = real.split /\ r.turn = real.turn /\ r.failed = TRUE
          /\ r.agents = real.agents /\ r.context = real.context
      BY <1>0 DEF Real
    <2>3. Follows(Line("apierror", 0, FALSE), r)
      <3> HIDE DEF r
      <3>1. QED
        BY <1>0, <2>1, <2>2, ClaudeSays
    <2>4. QED
      BY <2>1, <2>3
  <1>11. CASE EndTurn
    <2> DEFINE r == [real EXCEPT !.turn = "idle"]
    <2>1. Write(Line("end", 0, FALSE), r)
      BY <1>11 DEF EndTurn
    <2>2. /\ r \in Real(At) /\ r.split = real.split /\ r.turn = "idle" /\ r.failed = real.failed
          /\ r.agents = real.agents /\ r.context = real.context
      BY <1>0 DEF Real
    <2>3. Follows(Line("end", 0, FALSE), r)
      <3> HIDE DEF r
      <3>1. QED
        BY <1>0, <2>1, <2>2, ClaudeSays
    <2>4. QED
      BY <2>1, <2>3
  <1>12. CASE Aside
    <2> DEFINE r == real
    <2>1. PICK kind \in {"meta", "sidechain"} : Write(Line(kind, 0, FALSE), r)
      BY <1>12 DEF Aside
    <2>2. /\ r \in Real(At) /\ r.split = real.split /\ r.turn = real.turn /\ r.failed = real.failed
          /\ r.agents = real.agents /\ r.context = real.context
      BY <1>0 DEF Real
    <2>3. Follows(Line(kind, 0, FALSE), r)
      <3> HIDE DEF r
      <3>1. QED
        BY <1>0, <2>1, <2>2, ClaudeSays
    <2>4. QED
      BY <2>1, <2>3
  <1>13. QED
    BY <1>1, <1>2, <1>3, <1>4, <1>5, <1>6, <1>7, <1>8, <1>9, <1>10, <1>11, <1>12

\* The same of a Codex session.
LEMMA CodexWrites ==
  ASSUME FileInv, engine = "codex", \/ Meta \/ TaskStarted \/ TaskLine \/ TokenCount \/ TaskError \/ TaskOver
  PROVE  \E line, r : Write(line, r) /\ Follows(line, r)
  <1>0. At \in Nat \ {0} /\ real \in Real(At) /\ 0 \in Nat /\ 0 <= At
    BY RealGrows
  <1>a. At \in Nat /\ real \in Real(At)
    BY RealGrows
  <1>1. CASE Meta
    <2> DEFINE r == real
    <2>1. Write(Line("session_meta", 0, FALSE), r)
      BY <1>1 DEF Meta
    <2>2. /\ r \in Real(At) /\ r.split = real.split /\ r.turn = real.turn /\ r.failed = real.failed
          /\ r.agents = real.agents /\ r.context = real.context
      BY <1>0 DEF Real
    <2>3. Follows(Line("session_meta", 0, FALSE), r)
      <3> HIDE DEF r
      <3>1. QED
        BY <1>0, <2>1, <2>2, CodexSays
    <2>4. QED
      BY <2>1, <2>3
  <1>2. CASE TaskStarted
    <2> DEFINE r == [real EXCEPT !.turn = "busy", !.failed = FALSE]
    <2>1. Write(Line("task_started", 0, FALSE), r)
      BY <1>2 DEF TaskStarted
    <2>2. /\ r \in Real(At) /\ r.split = real.split /\ r.turn = "busy" /\ r.failed = FALSE
          /\ r.agents = real.agents /\ r.context = real.context
      BY <1>0 DEF Real
    <2>3. Follows(Line("task_started", 0, FALSE), r)
      <3> HIDE DEF r
      <3>1. QED
        BY <1>0, <2>1, <2>2, CodexSays
    <2>4. QED
      BY <2>1, <2>3
  <1>3. CASE TaskLine
    <2> DEFINE r == real
    <2>1. PICK kind \in {"user_message", "agent_message", "function_call", "item"}, sep \in BOOLEAN :
            Write(Line(kind, 0, sep), r)
      BY <1>3 DEF TaskLine
    <2>2. /\ r \in Real(At) /\ r.split = real.split /\ r.turn = real.turn /\ r.failed = real.failed
          /\ r.agents = real.agents /\ r.context = real.context
      BY <1>0 DEF Real
    <2>3. Follows(Line(kind, 0, sep), r)
      <3> HIDE DEF r
      <3>1. QED
        BY <1>0, <2>1, <2>2, CodexSays
    <2>4. QED
      BY <2>1, <2>3
  <1>4. CASE TokenCount
    <2> DEFINE r == [real EXCEPT !.context = At]
    <2>1. Write(Line("token_count", 0, FALSE), r)
      BY <1>4 DEF TokenCount
    <2>2. /\ r \in Real(At) /\ r.split = real.split /\ r.turn = real.turn /\ r.failed = real.failed
          /\ r.agents = real.agents /\ r.context = At
      <3>1. r = [turn |-> real.turn, woken |-> real.woken, failed |-> real.failed, agents |-> real.agents,
                 async |-> real.async, context |-> At, split |-> real.split]
        BY <1>a, RealChanges, Zenon
      <3> HIDE DEF r
      <3>2. r \in Real(At)
        <4>1. real.agents \in SUBSET (1..At) /\ At \in 0..At
          BY <1>0, RealGrows
        <4>2. QED
          BY <1>0, <3>1, <4>1, RealGrows, RealMade, ZenonT(60)
      <3>3. QED
        BY <3>1, <3>2
    <2>3. Follows(Line("token_count", 0, FALSE), r)
      <3> HIDE DEF r
      <3>1. QED
        BY <1>0, <2>1, <2>2, CodexSays
    <2>4. QED
      BY <2>1, <2>3
  <1>5. CASE TaskError
    <2> DEFINE r == [real EXCEPT !.failed = TRUE]
    <2>1. PICK kind \in {"error", "stream_error"} : Write(Line(kind, 0, FALSE), r)
      BY <1>5 DEF TaskError
    <2>2. /\ r \in Real(At) /\ r.split = real.split /\ r.turn = real.turn /\ r.failed = TRUE
          /\ r.agents = real.agents /\ r.context = real.context
      BY <1>0 DEF Real
    <2>3. Follows(Line(kind, 0, FALSE), r)
      <3> HIDE DEF r
      <3>1. QED
        BY <1>0, <2>1, <2>2, CodexSays
    <2>4. QED
      BY <2>1, <2>3
  <1>6. CASE TaskOver
    <2> DEFINE r == [real EXCEPT !.turn = "idle"]
    <2>1. PICK kind \in {"task_complete", "turn_aborted"} : Write(Line(kind, 0, FALSE), r)
      BY <1>6 DEF TaskOver
    <2>2. /\ r \in Real(At) /\ r.split = real.split /\ r.turn = "idle" /\ r.failed = real.failed
          /\ r.agents = real.agents /\ r.context = real.context
      BY <1>0 DEF Real
    <2>3. Follows(Line(kind, 0, FALSE), r)
      <3> HIDE DEF r
      <3>1. QED
        BY <1>0, <2>1, <2>2, CodexSays
    <2>4. QED
      BY <2>1, <2>3
  <1>7. QED
    BY <1>1, <1>2, <1>3, <1>4, <1>5, <1>6

-----------------------------------------------------------------------------
(* The steps, by what they do to the files.                                *)

\* The session writes a line.
Writes == \E line, r : Write(line, r) /\ Follows(line, r)

\* Its child does.
KidFollows(line) ==
  /\ line \in Lines /\ Room
  /\ kid' \in Kid /\ kid'.there /\ kid'.open
  /\ kid'.file = Append(kid.file, line)
  /\ kid'.busy = TaskRuns(kid.busy, line)
  /\ UNCHANGED <<engine, reader, file, open, real, vitals, feed>>

KidGrows == \E line : KidFollows(line)

\* Every step of a child's that writes has it busy while a task runs.
LEMMA KidSays ==
  ASSUME FileInv, KidStarts \/ KidRuns
  PROVE  KidGrows
  <1>1. ASSUME NEW kind \in {"session_meta", "task_started", "task_complete", "turn_aborted"},
               NEW k \in Kid, k.file = kid.file, k.there, k.busy = TaskRuns(kid.busy, Line(kind, 0, FALSE)),
               KidWrites(kind, k)
        PROVE  KidFollows(Line(kind, 0, FALSE))
    <2> DEFINE line == Line(kind, 0, FALSE)
    <2>1. line \in Lines
      <3>1. 0 \in Nat /\ FALSE \in BOOLEAN
        OBVIOUS
      <3>2. QED
        BY <3>1, LineTyped, ZenonT(60)
    <2> HIDE DEF line
    <2>2. kid' = [k EXCEPT !.file = Append(@, line), !.open = TRUE]
      BY <1>1 DEF KidWrites, line
    <2>3. k.file \in Seq(Lines)
      BY DEF Kid
    <2>4. Append(k.file, line) \in Seq(Lines)
      BY <2>1, <2>3, AppendProperties
    <2>5. /\ kid' \in Kid /\ kid'.there = k.there /\ kid'.open = TRUE /\ kid'.busy = k.busy
          /\ kid'.file = Append(k.file, line)
      BY <2>2, <2>4 DEF Kid
    <2>6. QED
      BY <1>1, <2>1, <2>5 DEF KidFollows, KidWrites, line
  <1>2. kid \in Kid /\ kid.busy \in BOOLEAN
    BY DEF FileInv, Kid
  <1>3. ASSUME NEW kind \in {"session_meta", "task_started", "task_complete", "turn_aborted"}
        PROVE  TaskRuns(kid.busy, Line(kind, 0, FALSE))
                 = IF kind = "session_meta" THEN kid.busy ELSE kind = "task_started"
    BY <1>2 DEF TaskRuns, Line
  <1>4. CASE KidStarts
    <2>1. PICK here \in BOOLEAN : KidWrites("session_meta", [kid EXCEPT !.there = TRUE, !.here = here])
      BY <1>4 DEF KidStarts
    <2> DEFINE k == [kid EXCEPT !.there = TRUE, !.here = here]
    <2>2. k \in Kid /\ k.file = kid.file /\ k.there /\ k.busy = kid.busy
      BY <1>2 DEF Kid
    <2> HIDE DEF k
    <2>3. KidFollows(Line("session_meta", 0, FALSE))
      BY <1>1, <1>3, <2>1, <2>2 DEF k
    <2>4. QED
      BY <2>3 DEF KidGrows
  <1>5. CASE KidRuns
    <2>1. CASE ~kid.busy /\ KidWrites("task_started", [kid EXCEPT !.busy = TRUE])
      <3> DEFINE k == [kid EXCEPT !.busy = TRUE]
      <3>1. k \in Kid /\ k.file = kid.file /\ k.there /\ k.busy = TRUE
        BY <1>2, <1>5 DEF Kid, KidRuns
      <3> HIDE DEF k
      <3>2. KidFollows(Line("task_started", 0, FALSE))
        BY <1>1, <1>3, <2>1, <3>1 DEF k
      <3>3. QED
        BY <3>2 DEF KidGrows
    <2>2. CASE \E kind \in {"task_complete", "turn_aborted"} : KidWrites(kind, [kid EXCEPT !.busy = FALSE])
      <3>1. PICK kind \in {"task_complete", "turn_aborted"} : KidWrites(kind, [kid EXCEPT !.busy = FALSE])
        BY <2>2
      <3> DEFINE k == [kid EXCEPT !.busy = FALSE]
      <3>2. k \in Kid /\ k.file = kid.file /\ k.there /\ k.busy = FALSE
        BY <1>2, <1>5 DEF Kid, KidRuns
      <3> HIDE DEF k
      <3>3. KidFollows(Line(kind, 0, FALSE))
        BY <1>1, <1>3, <3>1, <3>2 DEF k
      <3>4. QED
        BY <3>3 DEF KidGrows
    <2>3. QED
      BY <1>5, <2>1, <2>2 DEF KidRuns
  <1>6. QED
    BY <1>4, <1>5

\* A step of the watch, the phone or the socket.
Feeds == Replay \/ Poll \/ Push \/ OpenView \/ CloseView \/ Break \/ Detach \/ Reconnect

\* A step that touches the card.
CardMoves == Refresh \/ RunDies \/ Restart

\* What can be done to the files.
LEMMA Steps ==
  ASSUME FileInv, [Next]_vars
  PROVE  \/ Writes \/ Newline \/ KidGrows \/ KidNewline \/ KidArchived \/ CardMoves \/ Feeds
         \/ UNCHANGED vars
  <1>1. CASE \/ Prompt \/ Queue \/ Compact \/ Boundary \/ Recap \/ Produce \/ Launch \/ Result
             \/ Notify \/ ApiError \/ EndTurn \/ Aside
    <2>1. engine = "claude"
      BY <1>1 DEF Prompt, Queue, Compact, Boundary, Recap, Produce, Launch, Result, Notify, ApiError, EndTurn,
                  Aside, Claude
    <2>2. QED
      BY <1>1, <2>1, ClaudeWrites DEF Writes
  <1>2. CASE Meta \/ TaskStarted \/ TaskLine \/ TokenCount \/ TaskError \/ TaskOver
    <2>1. engine = "codex"
      BY <1>2 DEF Meta, TaskStarted, TaskLine, TokenCount, TaskError, TaskOver, Codex
    <2>2. QED
      BY <1>2, <2>1, CodexWrites DEF Writes
  <1>3. CASE KidStarts \/ KidRuns
    BY <1>3, KidSays
  <1>4. QED
    BY <1>1, <1>2, <1>3 DEF Next, Feeds, CardMoves

\* Neither the watch nor a step of nothing touches the files and the card.
LEMMA ReaderSteps ==
  ASSUME Feeds \/ UNCHANGED vars
  PROVE  UNCHANGED <<engine, reader, session, vitals>> /\ (Feeds => reader = "log")
  <1>1. CASE Feeds
    <2>1. Feed
      BY <1>1 DEF Feeds, Replay, Poll, Push, OpenView, CloseView, Break, Detach, Reconnect
    <2>2. QED
      BY <2>1 DEF Feed
  <1>2. CASE UNCHANGED vars /\ ~Feeds
    BY <1>2 DEF vars
  <1>3. QED
    BY <1>1, <1>2

-----------------------------------------------------------------------------
(* The files.                                                              *)

\* How long they are.
LEMMA FileFacts ==
  ASSUME FileInv
  PROVE  /\ Len(file) \in Nat /\ Len(kid.file) \in Nat /\ MostLines \in Nat
         /\ Whole \in Nat /\ Whole <= Len(file) /\ Whole = Complete(file, open)
         /\ (open => Whole + 1 = Len(file)) /\ (~open => Whole = Len(file))
         /\ Complete(kid.file, kid.open) \in Nat /\ Complete(kid.file, kid.open) <= Len(kid.file)
         /\ (~kid.open => Complete(kid.file, kid.open) = Len(kid.file))
         /\ Complete(kid.file, TRUE) = Len(kid.file) - 1 /\ Complete(kid.file, FALSE) = Len(kid.file)
  <1>1. file \in Seq(Lines) /\ kid.file \in Seq(Lines) /\ open \in BOOLEAN /\ kid.open \in BOOLEAN
    BY DEF FileInv, Kid
  <1>2. Len(file) \in Nat /\ Len(kid.file) \in Nat
    BY <1>1, LenProperties
  <1>3. (file # <<>> => Len(file) > 0) /\ (kid.file # <<>> => Len(kid.file) > 0)
    BY <1>1, <1>2, EmptySeq
  <1>4. MostLines \in Nat
    BY SessionsAssumption DEF MostLines
  <1>5. (open => Len(file) > 0) /\ (kid.open => Len(kid.file) > 0)
    BY <1>3 DEF FileInv
  <1>6. QED
    BY <1>1, <1>2, <1>4, <1>5 DEF Whole, Complete

\* What a line that follows makes of the file.
LEMMA WriteAppends ==
  ASSUME FileInv, NEW line, NEW r, Write(line, r), Follows(line, r)
  PROVE  /\ file' = Append(file, line) /\ file' \in Seq(Lines) /\ Len(file') = At
         /\ file'[At] = line /\ (\A i \in 1..Len(file) : file'[i] = file[i])
         /\ open' = TRUE /\ open = FALSE /\ Whole' = Whole
  <1>1. line \in Lines /\ file \in Seq(Lines) /\ file' = Append(file, line) /\ open' = TRUE /\ ~open /\ open \in BOOLEAN
    BY DEF Write, Follows, FileInv
  <1>2. Len(file) \in Nat
    BY FileFacts
  <1>3. /\ file' \in Seq(Lines) /\ Len(file') = Len(file) + 1 /\ file'[Len(file) + 1] = line
        /\ \A i \in 1..Len(file) : file'[i] = file[i]
    BY <1>1, <1>2, AppendProperties
  <1>4. QED
    BY <1>1, <1>2, <1>3 DEF At, Whole

\* The shape of the session and its files is kept.
LEMMA FileInvNext ==
  ASSUME FileInv, [Next]_vars
  PROVE  FileInv'
  <1>1. ASSUME NEW line, NEW r, Write(line, r), Follows(line, r)
        PROVE  FileInv'
    <2>1. /\ line.id <= At /\ line.id \in Nat /\ line.sep \in BOOLEAN /\ r \in Real(At)
          /\ At = Len(file) + 1 /\ Len(file) \in Nat
      BY <1>1, FileFacts DEF Follows, Lines, At
    <2>2. /\ file' \in Seq(Lines) /\ Len(file') = At /\ file'[At] = line /\ open' = TRUE
          /\ \A i \in 1..Len(file) : file'[i] = file[i]
      BY <1>1, WriteAppends
    <2>3. real' \in Real(At)
      <3>1. real' = [r EXCEPT !.split = @ \/ line.sep]
        BY <1>1 DEF Write
      <3>2. QED
        BY <2>1, <3>1 DEF Real
    <2>4. /\ engine' = engine /\ reader' = reader /\ kid' = kid /\ MostLines' = MostLines
          /\ Len(file) + Len(kid.file) < MostLines
      BY <1>1 DEF Write, MostLines, Room
    <2>5. Len(file') + Len(kid'.file) <= MostLines'
      <3>1. /\ Len(kid'.file) = Len(kid.file) /\ Len(kid.file) \in Nat /\ MostLines \in Nat
            /\ Len(file') = Len(file) + 1 /\ MostLines' = MostLines /\ Len(file) + Len(kid.file) < MostLines
        BY <2>1, <2>2, <2>4, FileFacts
      <3>2. PICK a \in Nat, b \in Nat, n \in Nat : a = Len(file) /\ b = Len(kid.file) /\ n = MostLines
        BY <2>1, <3>1
      <3>3. a + b < n /\ Len(file') = a + 1 /\ Len(kid'.file) = b /\ MostLines' = n
        BY <3>1, <3>2
      <3>4. (a + 1) + b <= n
        BY <3>3
      <3>5. QED
        BY <3>3, <3>4, Zenon
    <2>6. \A i \in DOMAIN file' : file'[i].id <= Len(file')
      <3>1. DOMAIN file' = 1..Len(file') /\ DOMAIN file = 1..Len(file)
        BY <2>2 DEF FileInv
      <3>2. ASSUME NEW i \in 1..Len(file') PROVE file'[i].id <= Len(file')
        <4>1. CASE i = At
          BY <2>1, <2>2, <4>1
        <4>2. CASE i # At
          <5>1. i \in 1..Len(file)
            BY <2>1, <2>2, <4>2
          <5>2. file[i].id <= Len(file) /\ file[i] \in Lines
            BY <3>1, <5>1, ElementOfSeq DEF FileInv
          <5>3. file[i].id \in Nat
            BY <5>2 DEF Lines
          <5>4. QED
            BY <2>1, <2>2, <5>1, <5>2, <5>3
        <4>3. QED
          BY <4>1, <4>2
      <3>3. QED
        BY <3>1, <3>2
    <2>7. open' => file' # <<>>
      BY <2>1, <2>2, EmptySeq
    <2>8. QED
      BY <2>2, <2>3, <2>4, <2>5, <2>6, <2>7 DEF FileInv
  <1>2. ASSUME NEW line, KidFollows(line) PROVE FileInv'
    <2>1. /\ kid' \in Kid /\ kid'.file = Append(kid.file, line) /\ line \in Lines
          /\ engine' = engine /\ reader' = reader /\ file' = file /\ open' = open /\ real' = real
          /\ MostLines' = MostLines /\ Len(file) + Len(kid.file) < MostLines
      BY <1>2 DEF KidFollows, MostLines, Room
    <2>2. kid.file \in Seq(Lines)
      BY DEF FileInv, Kid
    <2>3. Len(kid'.file) = Len(kid.file) + 1 /\ kid'.file # <<>>
      BY <2>1, <2>2, AppendProperties
    <2>4. Len(file') + Len(kid'.file) <= MostLines'
      BY <2>1, <2>3, FileFacts
    <2>5. QED
      BY <2>1, <2>3, <2>4 DEF FileInv
  <1>3. CASE Newline
    BY <1>3 DEF Newline, FileInv, MostLines
  <1>4. CASE KidNewline
    <2>1. /\ kid' \in Kid /\ kid'.file = kid.file /\ kid'.open = FALSE
      BY <1>4 DEF KidNewline, FileInv, Kid
    <2>2. QED
      BY <1>4, <2>1 DEF KidNewline, FileInv, MostLines
  <1>5. CASE KidArchived
    <2>1. kid.file \in Seq(Lines) /\ kid' = [NoKid EXCEPT !.file = kid.file]
      BY <1>5 DEF KidArchived, FileInv, Kid
    <2>2. /\ kid' \in Kid /\ kid'.file = kid.file /\ kid'.open = FALSE
      BY <2>1 DEF NoKid, Kid
    <2>3. QED
      BY <1>5, <2>2 DEF KidArchived, FileInv, MostLines
  <1>6. CASE UNCHANGED <<engine, reader, session>>
    BY <1>6 DEF FileInv, session, MostLines
  <1>7. QED
    BY <1>1, <1>2, <1>3, <1>4, <1>5, <1>6, Steps, ReaderSteps
       DEF Writes, KidGrows, CardMoves, Refresh, RunDies, Restart

\* The lines go on saying what the session does.
LEMMA RealInvNext ==
  ASSUME FileInv, RealInv, [Next]_vars
  PROVE  RealInv'
  <1>1. ASSUME NEW line, NEW r, Write(line, r), Follows(line, r)
        PROVE  RealInv'
    <2>1. real' = [r EXCEPT !.split = @ \/ line.sep] /\ r \in Real(At) /\ r.split = real.split /\ line.sep \in BOOLEAN
      BY <1>1 DEF Write, Follows, Lines
    <2>2. (real'.split <=> real.split \/ line.sep) /\ Seen(real') = Seen(r)
      BY <2>1 DEF Real, Seen
    <2>3. ASSUME ~real'.split PROVE Scan(engine', file', Fresh, 0, Len(file')) = Seen(real')
      <3>1. /\ Len(file) \in Nat /\ Len(file') = Len(file) + 1 /\ file'[Len(file) + 1] = line /\ engine' = engine
            /\ \A i \in 1..Len(file) : file'[i] = file[i]
        BY <1>1, FileFacts, WriteAppends DEF At, Write
      <3>2. Scan(engine, file', Fresh, 0, Len(file) + 1)
              = ScanLine(engine, Scan(engine, file', Fresh, 0, Len(file)), file'[Len(file) + 1], Len(file) + 1)
        BY <3>1, ScanNext
      <3>3. Scan(engine, file', Fresh, 0, Len(file)) = Scan(engine, file, Fresh, 0, Len(file))
        BY <3>1, ScanAgrees
      <3>4. Scan(engine, file, Fresh, 0, Len(file)) = Seen(real)
        BY <2>2, <2>3 DEF RealInv
      <3>5. ScanLine(engine, Seen(real), line, Len(file) + 1) = Seen(r)
        BY <1>1, <2>2, <2>3 DEF Follows, At
      <3>6. QED
        BY <2>2, <3>1, <3>2, <3>3, <3>4, <3>5
    <2>4. kid' = kid
      BY <1>1 DEF Write
    <2>5. QED
      BY <2>3, <2>4 DEF RealInv
  <1>2. ASSUME NEW line, KidFollows(line) PROVE RealInv'
    <2>1. /\ kid'.file = Append(kid.file, line) /\ kid'.busy = TaskRuns(kid.busy, line) /\ kid'.there
          /\ engine' = engine /\ file' = file /\ real' = real
      BY <1>2 DEF KidFollows
    <2>2. kid.file \in Seq(Lines) /\ line \in Lines /\ Len(kid.file) \in Nat
      BY <1>2, FileFacts DEF FileInv, Kid, KidFollows
    <2>3. /\ Len(kid'.file) = Len(kid.file) + 1 /\ kid'.file[Len(kid.file) + 1] = line
          /\ \A i \in 1..Len(kid.file) : kid'.file[i] = kid.file[i]
      BY <2>1, <2>2, AppendProperties
    <2>4. Ran(kid'.file, Len(kid.file) + 1)
            = TaskRuns(Ran(kid'.file, Len(kid.file)), kid'.file[Len(kid.file) + 1])
      BY <2>2, RanNext
    <2>5. Ran(kid'.file, Len(kid.file)) = Ran(kid.file, Len(kid.file))
      BY <2>2, <2>3, RanAgrees
    <2>6. kid'.busy = Ran(kid'.file, Len(kid'.file))
      BY <2>1, <2>3, <2>4, <2>5 DEF RealInv
    <2>7. QED
      BY <2>1, <2>6 DEF RealInv
  <1>3. CASE Newline
    BY <1>3 DEF Newline, RealInv
  <1>4. CASE KidNewline
    <2>1. kid'.file = kid.file /\ kid'.busy = kid.busy /\ kid'.there = kid.there
      BY <1>4 DEF KidNewline, FileInv, Kid
    <2>2. QED
      BY <1>4, <2>1 DEF KidNewline, RealInv
  <1>5. CASE KidArchived
    <2>1. kid'.file = kid.file /\ kid'.busy = FALSE /\ kid.busy = FALSE
      BY <1>5 DEF KidArchived, FileInv, Kid, NoKid
    <2>2. QED
      BY <1>5, <2>1 DEF KidArchived, RealInv
  <1>6. CASE UNCHANGED <<engine, reader, session>>
    BY <1>6 DEF RealInv, session
  <1>7. QED
    BY <1>1, <1>2, <1>3, <1>4, <1>5, <1>6, Steps, ReaderSteps
       DEF Writes, KidGrows, CardMoves, Refresh, RunDies, Restart

-----------------------------------------------------------------------------
(* The card.                                                               *)

\* A line leaves the vitals their shape; the context is the line's, or as it was.
LEMMA ScanLineTyped ==
  ASSUME NEW eng, NEW v \in Vitals, NEW line \in Lines, NEW at \in Nat
  PROVE  /\ ScanLine(eng, v, line, at) \in Vitals
         /\ ScanLine(eng, v, line, at).context \in {v.context, at}
  <1>1. /\ v.thinking \in BOOLEAN /\ v.error \in BOOLEAN /\ v.agents \in SUBSET Nat /\ v.context \in Nat
        /\ line.id \in Nat
    BY DEF Vitals, Lines
  <1>2. ASSUME NEW thinking \in BOOLEAN, NEW error \in BOOLEAN, NEW agents \in SUBSET Nat,
               NEW context \in {v.context, at}, NEW w,
               w = [thinking |-> thinking, error |-> error, agents |-> agents, context |-> context]
        PROVE  w \in Vitals /\ w.context \in {v.context, at}
    BY <1>1, <1>2 DEF Vitals
  <1>3. CASE line.sep
    BY <1>3 DEF ScanLine, ScanClaude, ScanCodex
  <1>4. CASE ~line.sep /\ eng = "codex"
    <2>1. v = [thinking |-> v.thinking, error |-> v.error, agents |-> v.agents, context |-> v.context]
      BY DEF Vitals
    <2>2. ScanLine(eng, v, line, at)
            = [v EXCEPT !.thinking = TaskRuns(@, line),
                        !.error = \/ line.kind \in {"error", "stream_error"}
                                  \/ @ /\ line.kind # "task_started",
                        !.context = IF line.kind = "token_count" THEN at ELSE @]
      BY <1>4, Zenon DEF ScanLine, ScanCodex
    <2> DEFINE thinking == TaskRuns(v.thinking, line)
               error == \/ line.kind \in {"error", "stream_error"}
                        \/ v.error /\ line.kind # "task_started"
               context == IF line.kind = "token_count" THEN at ELSE v.context
    <2>3. thinking \in BOOLEAN
      BY Zenon DEF TaskRuns
    <2>4. error \in BOOLEAN
      BY Zenon
    <2>5. context \in {v.context, at}
      OBVIOUS
    <2>6. ScanLine(eng, v, line, at)
            = [thinking |-> thinking, error |-> error, agents |-> v.agents, context |-> context]
      BY <2>1, <2>2, Zenon
    <2> HIDE DEF thinking, error, context
    <2>7. QED
      BY <1>1, <1>2, <2>3, <2>4, <2>5, <2>6
  <1>5. CASE ~line.sep /\ eng # "codex"
    <2> DEFINE thinking == ThinkingAfter(v, line)
               error == IF line.kind = "apierror" THEN TRUE
                        ELSE v.error /\ line.kind \notin Produced \cup {"text", "slash"}
               agents == (v.agents \ Finished(line)) \cup (IF line.kind = "call" THEN {line.id} ELSE {})
               context == IF line.kind \in Produced \cup {"boundary"} THEN at ELSE v.context
    <2>1. ScanLine(eng, v, line, at)
            = [thinking |-> thinking, error |-> error, agents |-> agents, context |-> context]
      BY <1>5, Zenon DEF ScanLine, ScanClaude
    <2>2. thinking \in BOOLEAN
      BY Zenon DEF ThinkingAfter
    <2>3. error \in BOOLEAN
      BY Zenon
    <2>4. agents \in SUBSET Nat
      BY <1>1
    <2>5. context \in {v.context, at}
      OBVIOUS
    <2> HIDE DEF thinking, error, agents, context
    <2>6. QED
      BY <1>2, <2>1, <2>2, <2>3, <2>4, <2>5
  <1>6. QED
    BY <1>3, <1>4, <1>5 DEF Lines

\* A scan from the start makes vitals, and the context is that of a line it has read.
LEMMA ScanTyped ==
  ASSUME NEW eng, NEW lines, NEW end \in Nat, \A i \in 1..end : lines[i] \in Lines
  PROVE  /\ Scan(eng, lines, Fresh, 0, end) \in Vitals
         /\ Scan(eng, lines, Fresh, 0, end).context <= end
  <1> DEFINE P(k) == /\ Scan(eng, lines, Fresh, 0, k) \in Vitals
                     /\ Scan(eng, lines, Fresh, 0, k).context <= k
             T == {k \in Nat : k <= end => P(k)}
  <1>1. 0 \in T
    <2>1. Scan(eng, lines, Fresh, 0, 0) = Fresh
      BY ScanNothing
    <2>2. Fresh \in Vitals /\ Fresh.context = 0
      BY DEF Fresh, Vitals
    <2>3. QED
      BY <2>1, <2>2
  <1>2. ASSUME NEW k \in Nat, k + 1 <= end, P(k) PROVE P(k + 1)
    <2> DEFINE v == Scan(eng, lines, Fresh, 0, k)
    <2>1. 0 \in Nat /\ 0 <= k /\ k + 1 \in Nat /\ k + 1 \in 1..end
      BY <1>2
    <2>2. v \in Vitals /\ v.context <= k /\ lines[k + 1] \in Lines
      BY <1>2, <2>1
    <2>3. Scan(eng, lines, Fresh, 0, k + 1) = ScanLine(eng, v, lines[k + 1], k + 1)
      BY <2>1, ScanNext
    <2> HIDE DEF v
    <2>4. /\ ScanLine(eng, v, lines[k + 1], k + 1) \in Vitals
          /\ ScanLine(eng, v, lines[k + 1], k + 1).context \in {v.context, k + 1}
      BY <2>1, <2>2, ScanLineTyped
    <2>5. v.context \in Nat
      BY <2>2 DEF Vitals
    <2>6. QED
      BY <2>1, <2>2, <2>3, <2>4, <2>5
  <1>3. T = Nat
    <2>1. ASSUME NEW k \in T PROVE k + 1 \in T
      <3>1. CASE k + 1 <= end
        <4>1. k \in Nat /\ k <= end
          BY <3>1
        <4>2. P(k)
          BY <4>1
        <4>3. P(k + 1)
          BY <1>2, <3>1, <4>1, <4>2
        <4>4. QED
          BY <4>1, <4>3
      <3>2. QED
        BY <3>1
    <2> HIDE DEF P
    <2>2. QED
      BY <1>1, <2>1, AllNaturals
  <1>4. QED
    BY <1>3

\* The card goes on saying what it has read.
LEMMA CardInvNext ==
  ASSUME FileInv, CardInv, [Next]_vars
  PROVE  CardInv'
  <1>0. /\ vitals \in Cards /\ vitals.off \in Nat /\ vitals.off <= Whole /\ Whole \in Nat /\ Whole <= Len(file)
        /\ Len(file) \in Nat /\ vitals.childoff \in Nat /\ Len(kid.file) \in Nat
        /\ vitals.childoff <= Complete(kid.file, kid.open) /\ Complete(kid.file, kid.open) \in Nat
        /\ Complete(kid.file, kid.open) <= Len(kid.file) /\ vitals.childoff <= Len(kid.file)
    BY FileFacts DEF CardInv, Cards
  <1>1. ASSUME NEW line, NEW r, Write(line, r), Follows(line, r)
        PROVE  CardInv'
    <2>1. vitals' = vitals /\ kid' = kid /\ engine' = engine
      BY <1>1 DEF Write
    <2>2. Whole' = Whole /\ \A i \in 1..Len(file) : file'[i] = file[i]
      BY <1>1, WriteAppends
    <2>3. PICK lines, was, n : lines = file' /\ was = file /\ n = vitals.off
      OBVIOUS
    <2>4. n \in Nat /\ 0 \in Nat /\ 0 <= n /\ \A i \in (0 + 1)..n : lines[i] = was[i]
      BY <1>0, <2>2, <2>3
    <2>5. Scan(engine, lines, Fresh, 0, n) = Scan(engine, was, Fresh, 0, n)
      BY <2>4, ScanAgrees
    <2>6. QED
      BY <2>1, <2>2, <2>3, <2>5 DEF CardInv
  <1>2. ASSUME NEW line, KidFollows(line) PROVE CardInv'
    <2>1. /\ vitals' = vitals /\ file' = file /\ open' = open /\ engine' = engine /\ Whole' = Whole
          /\ kid'.open /\ kid'.file = Append(kid.file, line)
          /\ kid.file \in Seq(Lines) /\ line \in Lines
      BY <1>2 DEF KidFollows, FileInv, Kid, Whole
    <2>2. Len(kid'.file) = Len(kid.file) + 1 /\ \A i \in 1..Len(kid.file) : kid'.file[i] = kid.file[i]
      BY <1>0, <2>1, AppendProperties
    <2>3. Ran(kid'.file, vitals.childoff) = Ran(kid.file, vitals.childoff)
      <3>1. PICK lines, was, n : lines = kid'.file /\ was = kid.file /\ n = vitals.childoff
        OBVIOUS
      <3>2. n \in Nat /\ \A i \in 1..n : lines[i] = was[i]
        BY <1>0, <2>2, <3>1
      <3>3. Ran(lines, n) = Ran(was, n)
        BY <3>2, RanAgrees
      <3>4. QED
        BY <3>1, <3>3
    <2>4. Complete(kid'.file, kid'.open) = Len(kid.file)
      BY <1>0, <2>1, <2>2 DEF Complete
    <2>5. vitals'.childoff <= Complete(kid'.file, kid'.open)
      BY <1>0, <2>1, <2>4
    <2>6. QED
      BY <2>1, <2>3, <2>5 DEF CardInv
  <1>3. CASE Newline
    <2>1. /\ vitals' = vitals /\ file' = file /\ kid' = kid /\ engine' = engine /\ open /\ open' = FALSE
      BY <1>3 DEF Newline
    <2>2. vitals'.off <= Whole'
      BY <1>0, <2>1 DEF Whole
    <2>3. QED
      BY <2>1, <2>2 DEF CardInv
  <1>4. CASE KidNewline \/ KidArchived
    <2>1. /\ vitals' = vitals /\ file' = file /\ open' = open /\ engine' = engine /\ Whole' = Whole
      BY <1>4 DEF KidNewline, KidArchived, Whole
    <2>2. kid'.file = kid.file /\ kid'.open = FALSE
      BY <1>4 DEF KidNewline, KidArchived, FileInv, Kid, NoKid
    <2>3. vitals'.childoff <= Complete(kid'.file, kid'.open)
      BY <1>0, <2>1, <2>2 DEF Complete
    <2>4. QED
      BY <2>1, <2>2, <2>3 DEF CardInv
  <1>5. CASE Refresh
    <2> DEFINE v == [vitals EXCEPT !.off = Whole, !.seen = Scan(engine, file, @, vitals.off, Whole)]
    <2>1. vitals' = Children(v) /\ UNCHANGED <<engine, file, open, kid>> /\ Whole' = Whole
      BY <1>5, FileFacts DEF Refresh, session, Whole
    <2>2. Scan(engine, file, vitals.seen, vitals.off, Whole) = Scan(engine, file, Fresh, 0, Whole)
      BY <1>0, ScanPortions DEF CardInv
    <2>3. \A i \in 1..Whole : file[i] \in Lines
      BY <1>0, ElementOfSeq DEF FileInv
    <2>4. /\ Scan(engine, file, Fresh, 0, Whole) \in Vitals
          /\ Scan(engine, file, Fresh, 0, Whole).context <= Whole
      BY <1>0, <2>3, ScanTyped
    <2>5. PICK seen \in Vitals : seen = Scan(engine, file, Fresh, 0, Whole) /\ seen.context <= Whole
      BY <2>4
    <2>6. v = [vitals EXCEPT !.off = Whole, !.seen = seen]
      BY <2>2, <2>5
    <2>7. /\ v \in Cards /\ v.off = Whole /\ v.seen = seen
          /\ v.child = vitals.child /\ v.childoff = vitals.childoff /\ v.active = vitals.active
      BY <1>0, <2>6 DEF Cards
    <2> HIDE DEF v
    <2>8. ASSUME NEW w \in Cards, Children(v) = w, w.off = v.off, w.seen = v.seen, w.childoff \in Nat,
                 w.childoff <= Complete(kid.file, kid.open), w.active = Ran(kid.file, w.childoff),
                 ~w.child => w.childoff = 0
          PROVE  CardInv'
      <3>1. vitals' = w
        BY <2>1, <2>8
      <3>2. vitals'.seen = Scan(engine', file', Fresh, 0, vitals'.off) /\ vitals'.seen.context <= vitals'.off
        BY <2>1, <2>5, <2>7, <2>8, <3>1
      <3>3. vitals' \in Cards /\ vitals'.off <= Whole'
        BY <1>0, <2>1, <2>7, <2>8, <3>1
      <3>4. /\ vitals'.childoff <= Complete(kid'.file, kid'.open) /\ vitals'.active = Ran(kid'.file, vitals'.childoff)
            /\ ~vitals'.child => vitals'.childoff = 0
        BY <2>1, <2>8, <3>1
      <3>5. QED
        BY <3>2, <3>3, <3>4 DEF CardInv
    <2>9. CASE Children(v) = v
      BY <1>0, <2>7, <2>8, <2>9 DEF CardInv
    <2>10. CASE Children(v) = ForgetKid(v)
      <3> DEFINE w == ForgetKid(v)
      <3>1. w \in Cards /\ w.off = v.off /\ w.seen = v.seen /\ w.childoff = 0 /\ w.active = FALSE
        BY <2>7 DEF ForgetKid, Cards
      <3> HIDE DEF w
      <3>2. w.active = Ran(kid.file, w.childoff)
        BY <3>1, RanNext
      <3>3. Children(v) = w
        BY <2>10 DEF w
      <3>4. QED
        BY <1>0, <2>8, <3>1, <3>2, <3>3
    <2>11. CASE Children(v) = [v EXCEPT !.child = TRUE, !.childoff = Complete(kid.file, kid.open),
                                        !.active = TasksRun(kid.file, @, v.childoff, Complete(kid.file, kid.open))]
      <3> DEFINE end == Complete(kid.file, kid.open)
                 run == Ran(kid.file, end)
      <3>1. /\ end \in Nat /\ v.childoff <= end /\ v.childoff \in Nat
            /\ v.active = Ran(kid.file, v.childoff)
        BY <1>0, <2>7 DEF CardInv
      <3>2. TasksRun(kid.file, v.active, v.childoff, end) = run
        BY <3>1, RanPortions
      <3>3. run \in BOOLEAN
        BY <3>1, RanTyped
      <3>4. Children(v) = [v EXCEPT !.child = TRUE, !.childoff = end, !.active = run]
        BY <2>11, <3>2
      <3> DEFINE w == [v EXCEPT !.child = TRUE, !.childoff = end, !.active = run]
      <3> HIDE DEF end, run
      <3>5. /\ w \in Cards /\ w.off = v.off /\ w.seen = v.seen
            /\ w.child = TRUE /\ w.childoff = end /\ w.active = run
        BY <2>7, <3>1, <3>3 DEF Cards
      <3> HIDE DEF w
      <3>6. Children(v) = w
        BY <3>4 DEF w
      <3>7. QED
        BY <1>0, <2>8, <3>1, <3>5, <3>6 DEF end, run
    <2>12. QED
      BY <2>9, <2>10, <2>11 DEF Children
  <1>6. CASE UNCHANGED <<engine, session, vitals>>
    BY <1>6 DEF CardInv, session, Whole
  <1>7. CASE RunDies
    <2>1. /\ UNCHANGED <<engine, file, open, kid>> /\ Whole' = Whole
          /\ vitals' = [vitals EXCEPT !.polled = FALSE]
      BY <1>7 DEF RunDies, session, Whole
    <2>2. /\ vitals' \in Cards /\ vitals'.off = vitals.off /\ vitals'.seen = vitals.seen
          /\ vitals'.child = vitals.child /\ vitals'.childoff = vitals.childoff /\ vitals'.active = vitals.active
      BY <1>0, <2>1 DEF Cards
    <2>3. QED
      BY <2>1, <2>2 DEF CardInv
  <1>8. CASE Restart
    <2>1. UNCHANGED <<engine, file, open, kid>> /\ Whole' = Whole /\ vitals' = NewVitals
      BY <1>8 DEF Restart, session, Whole
    <2>2. /\ vitals' \in Cards /\ vitals'.off = 0 /\ vitals'.seen = Fresh /\ vitals'.seen.context = 0
          /\ vitals'.childoff = 0 /\ vitals'.active = FALSE
      BY <2>1 DEF NewVitals, Cards, Vitals, Fresh
    <2>3. vitals'.seen = Scan(engine', file', Fresh, 0, vitals'.off)
      BY <2>2, ScanNothing
    <2>4. vitals'.active = Ran(kid'.file, vitals'.childoff)
      BY <2>2, RanNext
    <2>5. /\ vitals'.off <= Whole' /\ vitals'.childoff <= Complete(kid'.file, kid'.open)
          /\ vitals'.seen.context <= vitals'.off
      BY <1>0, <2>1, <2>2
    <2>6. QED
      BY <2>2, <2>3, <2>4, <2>5 DEF CardInv
  <1>9. QED
    BY <1>1, <1>2, <1>3, <1>4, <1>5, <1>6, <1>7, <1>8, Steps, ReaderSteps DEF Writes, KidGrows, CardMoves

-----------------------------------------------------------------------------
(* The log.                                                                *)

\* What is put behind a sequence leaves its stretches, and is one itself.
LEMMA StretchesStay ==
  ASSUME NEW S, NEW s \in Seq(S), NEW t \in Seq(S)
  PROVE  /\ \A i \in 1..(Len(s) + 1), j \in 0..Len(s) : SubSeq(s \o t, i, j) = SubSeq(s, i, j)
         /\ SubSeq(s \o t, Len(s) + 1, Len(s) + Len(t)) = t
         /\ SubSeq(s \o t, 1, Len(s)) = s
  <1>1. Len(s) \in Nat /\ Len(t) \in Nat
    BY LenProperties
  <1>2. ASSUME NEW i \in 1..(Len(s) + 1), NEW j \in 0..Len(s)
        PROVE  SubSeq(s \o t, i, j) = SubSeq(s, i, j)
    <2>1. i \in Int /\ j \in Int
      BY <1>1
    <2>2. CASE j < i
      <3>1. SubSeq(s \o t, i, j) = <<>> /\ SubSeq(s, i, j) = <<>>
        BY <2>1, <2>2, SubSeqEmpty
      <3>2. QED
        BY <3>1
    <2>3. CASE i <= j
      <3>1. i \in 1..Len(s) /\ j \in 1..Len(s)
        BY <1>1, <2>1, <2>3
      <3>2. QED
        BY <3>1, SubSeqOfConcat1
    <2>4. QED
      BY <2>1, <2>2, <2>3
  <1>3. SubSeq(s \o t, Len(s) + 1, Len(s) + Len(t)) = t
    <2>1. CASE t = <<>>
      <3>1. Len(s) + Len(t) < Len(s) + 1 /\ Len(s) + 1 \in Int /\ Len(s) + Len(t) \in Int
        BY <1>1, <2>1, EmptySeq
      <3>2. QED
        BY <2>1, <3>1, SubSeqEmpty
    <2>2. CASE t # <<>>
      <3>1. Len(t) >= 1
        BY <1>1, <2>2, EmptySeq
      <3>2. Len(s) + 1 \in Len(s)+1 .. Len(s)+Len(t) /\ Len(s) + Len(t) \in Len(s)+1 .. Len(s)+Len(t)
        BY <1>1, <3>1
      <3>3. SubSeq(s \o t, Len(s) + 1, Len(s) + Len(t)) = SubSeq(t, Len(s) + 1 - Len(s), Len(s) + Len(t) - Len(s))
        BY <3>2, SubSeqOfConcat2
      <3>4. Len(s) + 1 - Len(s) = 1 /\ Len(s) + Len(t) - Len(s) = Len(t)
        BY <1>1
      <3>5. QED
        BY <3>3, <3>4, SubSeqFull
    <2>3. QED
      BY <2>1, <2>2
  <1>4. SubSeq(s \o t, 1, Len(s)) = s
    <2>1. 1 \in 1..(Len(s) + 1) /\ Len(s) \in 0..Len(s)
      BY <1>1
    <2>2. QED
      BY <1>2, <2>1, SubSeqFull
  <1>5. QED
    BY <1>2, <1>3, <1>4

\* No two entries of the log are the same.
LEMMA EntriesDistinct ==
  ASSUME NEW eng, NEW lines, NEW end \in Nat
  PROVE  \A i, j \in 1..Len(Entries(eng, lines, 0, end)) :
           Entries(eng, lines, 0, end)[i] = Entries(eng, lines, 0, end)[j] => i = j
  <1> DEFINE E(k) == Entries(eng, lines, 0, k)
             P(k) == /\ \A i \in 1..Len(E(k)) : E(k)[i].at[1] <= k
                     /\ \A i, j \in 1..Len(E(k)) : E(k)[i] = E(k)[j] => i = j
             T == {k \in Nat : P(k)}
  <1>1. 0 \in T
    <2>1. E(0) = <<>>
      BY EntriesNothing
    <2>2. Len(E(0)) = 0
      BY <2>1, EmptySeq
    <2>3. QED
      BY <2>2
  <1>2. ASSUME NEW k \in Nat, P(k) PROVE P(k + 1)
    <2>1. PICK line \in Seq(LogEntry) :
            /\ line = Logged(Parse(eng, lines[k + 1], k + 1))
            /\ \A i \in 1..Len(line) : line[i].at = <<k + 1, i>>
      BY LineEntries
    <2>2. PICK s \in Seq(LogEntry) : s = E(k)
      BY EntriesAreLog
    <2>3. E(k + 1) = s \o line
      <3>1. 0 \in Nat /\ 0 <= k
        OBVIOUS
      <3>2. Entries(eng, lines, 0, k + 1) = LogLine(eng, Entries(eng, lines, 0, k), lines[k + 1], k + 1)
        BY <3>1, EntriesNext
      <3>3. QED
        BY <2>1, <2>2, <3>2 DEF LogLine
    <2>4. Len(s) \in Nat /\ Len(line) \in Nat
      BY LenProperties
    <2>5. /\ Len(s \o line) = Len(s) + Len(line)
          /\ \A i \in 1..(Len(s) + Len(line)) : (s \o line)[i] = IF i <= Len(s) THEN s[i] ELSE line[i - Len(s)]
      BY ConcatProperties
    <2>6. /\ \A i \in 1..Len(s) : s[i].at[1] <= k
          /\ \A i, j \in 1..Len(s) : s[i] = s[j] => i = j
      BY <1>2, <2>2
    <2>7. ASSUME NEW i \in 1..Len(s) PROVE s[i].at[1] \in Nat
      <3>1. s[i] \in LogEntry
        BY ElementOfSeq
      <3>2. s[i].at \in Nat \X {1, 2}
        BY <3>1 DEF LogEntry
      <3>3. QED
        BY <3>2
    <2> DEFINE w == s \o line
    <2>8. ASSUME NEW i \in 1..Len(w)
          PROVE  \/ i \in 1..Len(s) /\ w[i] = s[i] /\ w[i].at[1] \in Nat /\ w[i].at[1] <= k
                 \/ i - Len(s) \in 1..Len(line) /\ w[i].at = <<k + 1, i - Len(s)>>
      <3>1. CASE i <= Len(s)
        BY <2>4, <2>5, <2>6, <2>7, <3>1
      <3>2. CASE i > Len(s)
        <4>1. i - Len(s) \in 1..Len(line) /\ w[i] = line[i - Len(s)]
          BY <2>4, <2>5, <3>2
        <4>2. QED
          BY <2>1, <4>1
      <3>3. QED
        BY <2>4, <2>5, <3>1, <3>2
    <2> HIDE DEF w
    <2>9. ASSUME NEW i \in 1..Len(w) PROVE w[i].at[1] <= k + 1
      BY <2>8
    <2>10. ASSUME NEW i \in 1..Len(w), NEW j \in 1..Len(w), w[i] = w[j] PROVE i = j
      <3>1. CASE i \in 1..Len(s) /\ w[i] = s[i] /\ w[i].at[1] \in Nat /\ w[i].at[1] <= k
        <4>1. w[j].at[1] \in Nat /\ w[j].at[1] <= k
          BY <2>10, <3>1
        <4>2. j \in 1..Len(s) /\ w[j] = s[j]
          <5>1. w[j].at # <<k + 1, j - Len(s)>>
            BY <4>1
          <5>2. QED
            BY <2>8, <5>1
        <4>3. QED
          BY <2>6, <2>10, <3>1, <4>2
      <3>2. CASE i - Len(s) \in 1..Len(line) /\ w[i].at = <<k + 1, i - Len(s)>>
        <4>1. w[j].at[1] = k + 1 /\ w[j].at[2] = i - Len(s)
          BY <2>10, <3>2
        <4>2. w[j].at = <<k + 1, j - Len(s)>>
          <5>1. ~(w[j].at[1] <= k)
            BY <4>1
          <5>2. QED
            BY <2>8, <5>1
        <4>3. i - Len(s) = j - Len(s) /\ i \in Int /\ j \in Int
          BY <4>1, <4>2
        <4>4. QED
          BY <2>4, <4>3
      <3>3. QED
        BY <2>8, <3>1, <3>2
    <2>11. QED
      BY <2>3, <2>9, <2>10 DEF w
  <1> HIDE DEF P
  <1>3. T = Nat
    <2>1. \A k \in T : k + 1 \in T
      BY <1>2
    <2>2. QED
      BY <1>1, <2>1, AllNaturals
  <1>4. P(end)
    BY <1>3
  <1>5. QED
    BY <1>4 DEF P

\* The log, and where its portions are in it.
LEMMA LogFacts ==
  ASSUME FileInv
  PROVE  /\ Log \in Seq(LogEntry) /\ Len(Log) \in Nat /\ Come(Whole) = Len(Log)
         /\ \A i, j \in 1..Len(Log) : Log[i] = Log[j] => i = j
         /\ \A off \in Nat : off <= Whole => Come(off) \in 0..Len(Log)
  <1>1. Whole \in Nat
    BY FileFacts
  <1>2. Log \in Seq(LogEntry)
    BY <1>1, EntriesAreLog DEF Log
  <1>3. Len(Log) \in Nat
    BY <1>2, LenProperties
  <1>4. \A i, j \in 1..Len(Log) : Log[i] = Log[j] => i = j
    BY <1>1, EntriesDistinct DEF Log
  <1>5. ASSUME NEW off \in Nat, off <= Whole PROVE Come(off) \in 0..Len(Log)
    <2>1. PICK first \in Seq(LogEntry), rest \in Seq(LogEntry) :
            first = Entries(engine, file, 0, off) /\ rest = Entries(engine, file, off, Whole)
      BY <1>1, <1>5, EntriesAreLog
    <2>2. first \o rest = Log
      <3>1. 0 \in Nat /\ 0 <= off
        OBVIOUS
      <3>2. Entries(engine, file, 0, off) \o Entries(engine, file, off, Whole) = Entries(engine, file, 0, Whole)
        BY <1>1, <1>5, <3>1, EntriesPortions
      <3>3. QED
        BY <2>1, <3>2 DEF Log
    <2>3. Len(first) \in Nat /\ Len(rest) \in Nat /\ Len(Log) = Len(first) + Len(rest)
      BY <2>2, LenProperties, ConcatProperties
    <2>4. QED
      BY <2>1, <2>3 DEF Come
  <1>6. QED
    BY <1>2, <1>3, <1>4, <1>5 DEF Come, Log

\* What is new at a poll is what the log has behind what was read.
LEMMA NewEntries ==
  ASSUME FileInv, NEW off \in Nat, off <= Whole
  PROVE  /\ Entries(engine, file, off, Whole) = SubSeq(Log, Come(off) + 1, Len(Log))
         /\ Entries(engine, file, off, Whole) = <<>> => Come(off) = Len(Log)
  <1>1. Whole \in Nat
    BY FileFacts
  <1>2. PICK first \in Seq(LogEntry), rest \in Seq(LogEntry) :
          first = Entries(engine, file, 0, off) /\ rest = Entries(engine, file, off, Whole)
    BY <1>1, EntriesAreLog
  <1>3. first \o rest = Log
    <2>1. 0 \in Nat /\ 0 <= off
      OBVIOUS
    <2>2. Entries(engine, file, 0, off) \o Entries(engine, file, off, Whole) = Entries(engine, file, 0, Whole)
      BY <1>1, <2>1, EntriesPortions
    <2>3. QED
      BY <1>2, <2>2 DEF Log
  <1>4. Len(first) \in Nat /\ Len(rest) \in Nat /\ Len(Log) = Len(first) + Len(rest)
    BY <1>3, LenProperties, ConcatProperties
  <1>5. SubSeq(first \o rest, Len(first) + 1, Len(first) + Len(rest)) = rest
    BY StretchesStay
  <1>6. rest = <<>> => Len(rest) = 0
    BY EmptySeq
  <1>7. QED
    BY <1>2, <1>3, <1>4, <1>5, <1>6 DEF Come

\* The log only grows, and what was read of it stays.
LEMMA LogGrows ==
  ASSUME FileInv, [Next]_vars
  PROVE  /\ Whole' \in Nat /\ Whole <= Whole'
         /\ \A off \in Nat : off <= Whole => Come(off)' = Come(off)
         /\ \E new \in Seq(LogEntry) : Log' = Log \o new
  <1>0. Whole \in Nat /\ Whole <= Len(file) /\ Len(file) \in Nat /\ Log \in Seq(LogEntry) /\ Log \o <<>> = Log
        /\ <<>> \in Seq(LogEntry)
    BY FileFacts, LogFacts, ConcatEmptySeq, EmptySeq
  <1>1. ASSUME NEW line, NEW r, Write(line, r), Follows(line, r)
        PROVE  Whole' = Whole /\ Log' = Log /\ \A off \in Nat : off <= Whole => Come(off)' = Come(off)
    <2>1. engine' = engine /\ Whole' = Whole /\ \A i \in 1..Len(file) : file'[i] = file[i]
      BY <1>1, WriteAppends DEF Write
    <2>2. PICK lines, was : lines = file' /\ was = file
      OBVIOUS
    <2>3. ASSUME NEW off \in Nat, off <= Whole
          PROVE  Entries(engine, lines, 0, off) = Entries(engine, was, 0, off)
      <3>1. 0 \in Nat /\ 0 <= off /\ \A i \in (0 + 1)..off : lines[i] = was[i]
        BY <1>0, <2>1, <2>2, <2>3
      <3>2. QED
        BY <3>1, EntriesAgrees
    <2>4. \A off \in Nat : off <= Whole => Entries(engine', file', 0, off) = Entries(engine, file, 0, off)
      BY <2>1, <2>2, <2>3
    <2>5. Log' = Log
      BY <1>0, <2>1, <2>4 DEF Log
    <2>6. QED
      BY <2>1, <2>4, <2>5 DEF Come
  <1>2. CASE UNCHANGED <<engine, file, open>>
    <2>1. Whole' = Whole /\ Log' = Log /\ \A off \in Nat : Come(off)' = Come(off)
      BY <1>2 DEF Whole, Log, Come
    <2>2. \E new \in Seq(LogEntry) : Log' = Log \o new
      BY <1>0, <2>1
    <2>3. QED
      BY <1>0, <2>1, <2>2
  <1>3. CASE Newline
    <2>1. engine' = engine /\ file' = file /\ open /\ open' = FALSE
      BY <1>3 DEF Newline
    <2>2. Whole' = Whole + 1
      BY <1>0, <2>1 DEF Whole
    <2>3. \A off \in Nat : Come(off)' = Come(off)
      BY <2>1 DEF Come
    <2>4. PICK new \in Seq(LogEntry) : new = Logged(Parse(engine, file[Whole + 1], Whole + 1))
      BY <1>0, LineEntries
    <2>5. Entries(engine, file, 0, Whole + 1)
            = LogLine(engine, Entries(engine, file, 0, Whole), file[Whole + 1], Whole + 1)
      <3>1. 0 \in Nat /\ 0 <= Whole
        BY <1>0
      <3>2. QED
        BY <1>0, <3>1, EntriesNext
    <2>6. Log' = Log \o new
      BY <2>1, <2>2, <2>4, <2>5 DEF Log, LogLine
    <2>7. \E more \in Seq(LogEntry) : Log' = Log \o more
      BY <2>4, <2>6
    <2>8. Whole' \in Nat /\ Whole <= Whole'
      BY <1>0, <2>2
    <2>9. QED
      BY <2>3, <2>7, <2>8
  <1>4. CASE Writes
    <2>1. PICK line, r : Write(line, r) /\ Follows(line, r)
      BY <1>4 DEF Writes
    <2>2. Whole' = Whole /\ Log' = Log /\ \A off \in Nat : off <= Whole => Come(off)' = Come(off)
      BY <1>1, <2>1
    <2>3. \E new \in Seq(LogEntry) : Log' = Log \o new
      BY <1>0, <2>2
    <2>4. QED
      BY <1>0, <2>2, <2>3
  <1>5. CASE KidGrows \/ KidNewline \/ KidArchived \/ CardMoves
    BY <1>2, <1>5 DEF KidGrows, KidFollows, KidNewline, KidArchived, CardMoves, Refresh, RunDies, Restart, session
  <1>6. CASE Feeds \/ UNCHANGED vars
    BY <1>2, <1>6, ReaderSteps DEF session
  <1>7. QED
    BY <1>3, <1>4, <1>5, <1>6, Steps

\* The stretches to where the log was are still there.
LEMMA StretchesKept ==
  ASSUME FileInv, [Next]_vars
  PROVE  /\ Len(Log') \in Nat /\ Len(Log) <= Len(Log')
         /\ \A n \in 0..Len(Log) : Stretches(Log', n) = Stretches(Log, n)
         /\ \A i \in 1..(Len(Log) + 1), n \in 0..Len(Log) : SubSeq(Log', i, n) = SubSeq(Log, i, n)
  <1>1. Log \in Seq(LogEntry) /\ Len(Log) \in Nat
    BY LogFacts
  <1>2. PICK new \in Seq(LogEntry) : Log' = Log \o new
    BY LogGrows
  <1>3. Len(new) \in Nat /\ Len(Log') = Len(Log) + Len(new)
    BY <1>1, <1>2, LenProperties, ConcatProperties
  <1>4. \A i \in 1..(Len(Log) + 1), n \in 0..Len(Log) : SubSeq(Log', i, n) = SubSeq(Log, i, n)
    BY <1>1, <1>2, StretchesStay
  <1>5. ASSUME NEW n \in 0..Len(Log) PROVE Stretches(Log', n) = Stretches(Log, n)
    <2>1. \A i \in 1..(n + 1) : SubSeq(Log', i, n) = SubSeq(Log, i, n)
      BY <1>1, <1>4
    <2>2. QED
      BY <2>1 DEF Stretches
  <1>6. QED
    BY <1>1, <1>3, <1>4, <1>5

-----------------------------------------------------------------------------
(* The feed.                                                               *)

\* The log may grow under what the watch has read and the phone shows.
LEMMA FollowKept ==
  ASSUME FileInv, [Next]_vars, NEW w \in Watches, w.off <= Whole, NEW shown, NEW socket, Follow(w, shown, socket),
         watch' = w, phone'.log = shown, conn' = socket
  PROVE  FeedInv'
  <1>1. w.off \in Nat /\ Come(w.off) \in 0..Len(Log) /\ Len(Log) \in Nat
    BY LogFacts DEF Watches
  <1>2. /\ Len(Log') \in Nat /\ Len(Log) <= Len(Log')
        /\ \A n \in 0..Len(Log) : Stretches(Log', n) = Stretches(Log, n)
        /\ \A i \in 1..(Len(Log) + 1), n \in 0..Len(Log) : SubSeq(Log', i, n) = SubSeq(Log, i, n)
    BY StretchesKept
  <1>3. Come(watch.off)' = Come(w.off)
    <2>1. \A off \in Nat : off <= Whole => Come(off)' = Come(off)
      BY LogGrows
    <2>2. Come(w.off)' = Come(w.off)
      BY <1>1, <2>1
    <2>3. QED
      BY <2>2 DEF Come
  <1>4. \E n \in 0..Len(Log') : shown \in Stretches(Log', n)
    BY <1>1, <1>2 DEF Follow
  <1>5. socket = "down" => w.pc = "none"
    BY DEF Follow
  <1>6. ASSUME w.pc = "push", w.reset
        PROVE  /\ w.frame \in Stretches(Log', Come(w.off))
               /\ \E n \in 0..Come(w.off) : shown \in Stretches(Log', n)
    <2>1. w.frame \in Stretches(Log, Come(w.off))
      BY <1>6 DEF Follow
    <2>2. PICK n \in 0..Come(w.off) : shown \in Stretches(Log, n)
      BY <1>6 DEF Follow
    <2>3. n \in 0..Len(Log)
      BY <1>1
    <2>4. QED
      BY <1>1, <1>2, <2>1, <2>2, <2>3
  <1>7. ASSUME w.pc = "push", ~w.reset, socket = "up"
        PROVE  \E n \in 0..Come(w.off) :
                 shown \in Stretches(Log', n) /\ w.frame = SubSeq(Log', n + 1, Come(w.off))
    <2>1. PICK n \in 0..Come(w.off) : shown \in Stretches(Log, n) /\ w.frame = SubSeq(Log, n + 1, Come(w.off))
      BY <1>7 DEF Follow
    <2>2. n \in 0..Len(Log) /\ n + 1 \in 1..(Len(Log) + 1)
      BY <1>1
    <2>3. QED
      BY <1>1, <1>2, <2>1, <2>2
  <1>8. ASSUME w.pc = "sleep", socket = "up" PROVE shown \in Stretches(Log', Come(w.off))
    BY <1>1, <1>2, <1>8 DEF Follow
  <1>9. QED
    BY <1>3, <1>4, <1>5, <1>6, <1>7, <1>8 DEF FeedInv, Follow

\* A stretch of the log is a sequence of its entries.
LEMMA StretchTyped ==
  ASSUME FileInv, NEW n \in 0..Len(Log), NEW s \in Stretches(Log, n)
  PROVE  s \in Seq(LogEntry)
  <1>1. Log \in Seq(LogEntry) /\ Len(Log) \in Nat
    BY LogFacts
  <1>2. PICK i \in 1..(n + 1) : s = SubSeq(Log, i, n)
    BY DEF Stretches
  <1>3. i \in Int /\ n \in Int /\ \A k \in i..n : Log[k] \in LogEntry
    BY <1>1, ElementOfSeq
  <1>4. QED
    BY <1>2, <1>3, SubSeqProperties

\* The replay starts over with an end of the log.
LEMMA ReplayFollows ==
  ASSUME FileInv, WatchTypes, FeedInv, Replay
  PROVE  /\ watch' \in Watches /\ watch'.off = Whole /\ UNCHANGED <<phone, conn, drops>>
         /\ Follow(watch', phone.log, conn)
  <1> DEFINE from == IF Len(Log) > ReplayLimit THEN Len(Log) - ReplayLimit + 1 ELSE 1
             frame == SubSeq(Log, from, Len(Log))
  <1>1. /\ Whole \in Nat /\ Whole = Complete(file, open) /\ Come(Whole) = Len(Log) /\ Len(Log) \in Nat
        /\ Log = Entries(engine, file, 0, Whole)
    BY FileFacts, LogFacts DEF Log
  <1>2. from \in 1..(Len(Log) + 1)
    BY <1>1, SessionsAssumption
  <1>3. watch' = [pc |-> "push", off |-> Whole, frame |-> frame, reset |-> TRUE] /\ UNCHANGED <<phone, conn, drops>>
    BY <1>1 DEF Replay, ReplayResets
  <1> HIDE DEF from
  <1>4. frame \in Stretches(Log, Len(Log))
    BY <1>2 DEF Stretches
  <1> HIDE DEF frame
  <1>5. frame \in Seq(LogEntry)
    <2>1. Len(Log) \in 0..Len(Log)
      BY <1>1
    <2>2. QED
      BY <1>4, <2>1, StretchTyped
  <1>6. /\ watch' \in Watches /\ watch'.off = Whole /\ watch'.pc = "push" /\ watch'.reset = TRUE
        /\ watch'.frame = frame
    BY <1>1, <1>3, <1>5 DEF Watches
  <1>7. conn # "down"
    BY DEF FeedInv, Follow, Replay
  <1>8. \E n \in 0..Len(Log) : phone.log \in Stretches(Log, n)
    BY DEF FeedInv, Follow
  <1>9. QED
    BY <1>1, <1>3, <1>4, <1>6, <1>7, <1>8 DEF Follow

\* A poll goes on where the watch has read.
LEMMA PollFollows ==
  ASSUME FileInv, WatchTypes, FeedInv, Poll
  PROVE  /\ watch' \in Watches /\ watch'.off = Whole /\ UNCHANGED <<phone, conn, drops>>
         /\ Follow(watch', phone.log, conn)
  <1> DEFINE new == Entries(engine, file, watch.off, Whole)
             pc == IF new = <<>> THEN "sleep" ELSE "push"
  <1>1. /\ Whole \in Nat /\ Whole = Complete(file, open) /\ Come(Whole) = Len(Log) /\ Len(Log) \in Nat
    BY FileFacts, LogFacts
  <1>2. watch.off \in Nat /\ watch.off <= Whole /\ watch.pc = "sleep"
    BY DEF WatchTypes, Watches, Poll
  <1>3. Come(watch.off) \in 0..Len(Log)
    BY <1>2, LogFacts
  <1>4. /\ new = SubSeq(Log, Come(watch.off) + 1, Len(Log))
        /\ new = <<>> => Come(watch.off) = Len(Log)
    BY <1>2, NewEntries
  <1>5. new \in Seq(LogEntry)
    BY <1>1, <1>2, EntriesAreLog
  <1>6. watch' = [pc |-> pc, off |-> Whole, frame |-> new, reset |-> FALSE] /\ UNCHANGED <<phone, conn, drops>>
    BY <1>1 DEF Poll, PollsOn
  <1>7. conn = "up" => phone.log \in Stretches(Log, Come(watch.off))
    BY <1>2 DEF FeedInv, Follow
  <1>8. conn # "down"
    BY <1>2 DEF FeedInv, Follow
  <1>9. \E n \in 0..Len(Log) : phone.log \in Stretches(Log, n)
    BY DEF FeedInv, Follow
  <1>10. pc \in {"sleep", "push"} /\ (pc = "sleep" => Come(watch.off) = Len(Log))
    BY <1>4
  <1> HIDE DEF new, pc
  <1>11. /\ watch' \in Watches /\ watch'.off = Whole /\ watch'.pc = pc /\ watch'.reset = FALSE
         /\ watch'.frame = new
    BY <1>1, <1>5, <1>6, <1>10 DEF Watches
  <1>12. QED
    BY <1>1, <1>3, <1>4, <1>6, <1>7, <1>8, <1>9, <1>10, <1>11 DEF Follow

\* What is pushed makes a stretch that goes as far as the watch has read.
LEMMA PushShows ==
  ASSUME FileInv, WatchTypes, FeedInv, Push, conn = "up"
  PROVE  /\ phone'.log \in Stretches(Log, Come(watch.off)) /\ phone' \in Phones
         /\ Come(watch.off) \in 0..Len(Log)
         /\ \E n \in 0..Come(watch.off) : phone.log \in Stretches(Log, n)
  <1>1. /\ Log \in Seq(LogEntry) /\ Len(Log) \in Nat /\ watch.off \in Nat /\ Come(watch.off) \in 0..Len(Log)
        /\ phone \in Phones /\ watch.frame \in Seq(LogEntry) /\ watch.reset \in BOOLEAN /\ watch.pc = "push"
    BY LogFacts DEF WatchTypes, Watches, Push
  <1>2. phone' = [phone EXCEPT !.log = (IF watch.reset THEN <<>> ELSE @) \o watch.frame]
    BY DEF Push
  <1>3. ASSUME NEW log \in Seq(LogEntry), phone' = [phone EXCEPT !.log = log]
        PROVE  phone' \in Phones /\ phone'.log = log
    BY <1>1, <1>3 DEF Phones
  <1>4. CASE watch.reset
    <2>1. <<>> \o watch.frame = watch.frame
      BY <1>1, ConcatEmptySeq
    <2>2. phone' = [phone EXCEPT !.log = watch.frame]
      BY <1>2, <1>4, <2>1
    <2>3. /\ watch.frame \in Stretches(Log, Come(watch.off))
          /\ \E n \in 0..Come(watch.off) : phone.log \in Stretches(Log, n)
      BY <1>1, <1>4 DEF FeedInv, Follow
    <2>4. QED
      BY <1>1, <1>3, <2>2, <2>3
  <1>5. CASE ~watch.reset
    <2>1. PICK n \in 0..Come(watch.off) :
            phone.log \in Stretches(Log, n) /\ watch.frame = SubSeq(Log, n + 1, Come(watch.off))
      BY <1>1, <1>5 DEF FeedInv, Follow
    <2>2. PICK i \in 1..(n + 1) : phone.log = SubSeq(Log, i, n)
      BY <2>1 DEF Stretches
    <2>3. PICK come \in Nat : come = Come(watch.off) /\ n <= come /\ come <= Len(Log)
      BY <1>1
    <2>4. i \in 1..(Len(Log) + 1) /\ n \in (i - 1)..Len(Log) /\ come \in n..Len(Log) /\ i \in 1..(come + 1)
      BY <1>1, <2>2, <2>3
    <2>5. SubSeq(Log, i, n) \o SubSeq(Log, n + 1, come) = SubSeq(Log, i, come)
      BY <1>1, <2>4, ConcatAdjacentSubSeq
    <2>6. phone' = [phone EXCEPT !.log = SubSeq(Log, i, come)]
      BY <1>2, <1>5, <2>1, <2>2, <2>3, <2>5
    <2>7. SubSeq(Log, i, come) \in Stretches(Log, come)
      BY <2>4 DEF Stretches
    <2>8. SubSeq(Log, i, come) \in Seq(LogEntry)
      BY <1>1, <2>3, <2>7, StretchTyped
    <2>9. QED
      BY <1>1, <1>3, <2>1, <2>3, <2>6, <2>7, <2>8
  <1>6. QED
    BY <1>1, <1>4, <1>5

\* The watch follows the log, whatever happens to the file, the view and the socket.
LEMMA FeedInvNext ==
  ASSUME FileInv, WatchTypes, FeedInv, [Next]_vars
  PROVE  WatchTypes' /\ FeedInv'
  <1>0. /\ watch \in Watches /\ watch.off \in Nat /\ watch.off <= Whole /\ phone \in Phones
        /\ conn \in {"up", "dead", "down"} /\ drops \in 0..MaxDrops /\ MaxDrops \in Nat
        /\ Follow(watch, phone.log, conn) /\ Whole \in Nat
    BY FileFacts, SessionsAssumption DEF WatchTypes, FeedInv, Watches
  <1>1. ASSUME watch' \in Watches, watch'.off <= Whole, phone' \in Phones, conn' \in {"up", "dead", "down"},
               drops' \in 0..MaxDrops, Follow(watch', phone'.log, conn')
        PROVE  WatchTypes' /\ FeedInv'
    <2>1. PICK w, shown, socket : w \in Watches /\ w = watch' /\ shown = phone'.log /\ socket = conn'
      BY <1>1
    <2>2. FeedInv'
      BY <1>1, <2>1, FollowKept
    <2>3. w.off \in Nat /\ Whole' \in Nat /\ Whole <= Whole'
      BY <2>1, LogGrows DEF Watches
    <2>4. watch'.off <= Whole'
      BY <1>0, <1>1, <2>1, <2>3
    <2>5. QED
      BY <1>1, <2>2, <2>4 DEF WatchTypes
  <1>2. NoWatch \in Watches /\ NewWatch \in Watches /\ NoWatch.pc = "none" /\ NewWatch.pc = "start"
        /\ NoWatch.off = 0 /\ NewWatch.off = 0
    BY EmptySeq DEF NoWatch, NewWatch, Watches
  <1>3. \E n \in 0..Len(Log) : phone.log \in Stretches(Log, n)
    BY <1>0 DEF Follow
  <1>4. ASSUME NEW w \in {NoWatch, NewWatch}, NEW socket, socket = "down" => w = NoWatch
        PROVE  Follow(w, phone.log, socket)
    BY <1>2, <1>3, <1>4 DEF Follow
  <1>5. CASE Replay
    <2>1. /\ watch' \in Watches /\ watch'.off = Whole /\ UNCHANGED <<phone, conn, drops>>
          /\ Follow(watch', phone.log, conn)
      BY <1>5, ReplayFollows
    <2>2. QED
      BY <1>0, <1>1, <2>1
  <1>6. CASE Poll
    <2>1. /\ watch' \in Watches /\ watch'.off = Whole /\ UNCHANGED <<phone, conn, drops>>
          /\ Follow(watch', phone.log, conn)
      BY <1>6, PollFollows
    <2>2. QED
      BY <1>0, <1>1, <2>1
  <1>7. CASE Push
    <2>1. /\ watch' = [watch EXCEPT !.pc = "sleep", !.frame = <<>>, !.reset = FALSE]
          /\ (conn # "up" => phone' = phone) /\ UNCHANGED <<conn, drops>> /\ watch.pc = "push"
      BY <1>7 DEF Push
    <2>2. watch' \in Watches /\ watch'.pc = "sleep" /\ watch'.off = watch.off
      BY <1>0, <2>1, EmptySeq DEF Watches
    <2>3. conn # "down"
      BY <1>0, <2>1 DEF Follow
    <2>4. CASE conn = "up"
      <3>1. /\ phone'.log \in Stretches(Log, Come(watch.off)) /\ phone' \in Phones
            /\ Come(watch.off) \in 0..Len(Log)
        BY <1>7, <2>4, PushShows
      <3>2. Follow(watch', phone'.log, conn)
        BY <2>2, <2>3, <3>1 DEF Follow
      <3>3. QED
        BY <1>0, <1>1, <2>1, <2>2, <3>1, <3>2
    <2>5. CASE conn # "up"
      <3>1. Follow(watch', phone'.log, conn)
        BY <1>3, <2>1, <2>2, <2>3, <2>5 DEF Follow
      <3>2. QED
        BY <1>0, <1>1, <2>1, <2>2, <2>5, <3>1
    <2>6. QED
      BY <2>4, <2>5
  <1>8. CASE OpenView \/ CloseView
    <2>1. phone' \in Phones /\ phone'.log = phone.log /\ UNCHANGED <<conn, drops>>
      <3>1. \E view \in BOOLEAN : phone' = [phone EXCEPT !.open = view]
        BY <1>8 DEF OpenView, CloseView
      <3>2. QED
        BY <1>0, <1>8, <3>1 DEF OpenView, CloseView, Phones
    <2>2. \/ watch' = watch
          \/ watch' \in {NoWatch, NewWatch} /\ conn = "up"
      BY <1>8 DEF OpenView, CloseView
    <2>3. CASE watch' = watch
      BY <1>0, <1>1, <2>1, <2>3
    <2>4. CASE watch' \in {NoWatch, NewWatch} /\ conn = "up"
      <3>1. PICK w \in {NoWatch, NewWatch} : w = watch'
        BY <2>4
      <3>2. Follow(w, phone.log, conn)
        BY <1>4, <2>4
      <3>3. w \in Watches /\ w.off <= Whole
        BY <1>0, <1>2
      <3>4. QED
        BY <1>0, <1>1, <2>1, <3>1, <3>2, <3>3
    <2>5. QED
      BY <2>2, <2>3, <2>4
  <1>9. CASE Break
    <2>1. watch' = watch /\ phone' = phone /\ conn' = "dead" /\ drops' \in 0..MaxDrops
      BY <1>0, <1>9 DEF Break
    <2>2. Follow(watch, phone.log, "dead")
      BY <1>0 DEF Follow
    <2>3. QED
      BY <1>0, <1>1, <2>1, <2>2
  <1>10. CASE Detach
    <2>1. watch' = NoWatch /\ phone' = phone /\ conn' = "down" /\ drops' = drops
      BY <1>10 DEF Detach
    <2>2. Follow(NoWatch, phone.log, "down")
      BY <1>4
    <2>3. QED
      BY <1>0, <1>1, <1>2, <2>1, <2>2
  <1>11. CASE Reconnect
    <2>1. phone' = phone /\ conn' = "up" /\ drops' = drops /\ conn = "down"
          /\ watch' \in {NewWatch, watch}
      BY <1>11 DEF Reconnect
    <2>2. Follow(NewWatch, phone.log, "up")
      BY <1>4
    <2>3. Follow(watch, phone.log, "up")
      <3>1. watch.pc = "none"
        BY <1>0, <2>1 DEF Follow
      <3>2. QED
        BY <1>3, <3>1 DEF Follow
    <2>4. QED
      BY <1>0, <1>1, <1>2, <2>1, <2>2, <2>3
  <1>12. CASE UNCHANGED feed
    <2>1. watch' = watch /\ phone' = phone /\ conn' = conn /\ drops' = drops
      BY <1>12 DEF feed
    <2>2. QED
      BY <1>0, <1>1, <2>1
  <1>13. CASE \/ Writes \/ Newline \/ KidGrows \/ KidNewline \/ KidArchived \/ CardMoves \/ UNCHANGED vars
    BY <1>12, <1>13 DEF Writes, Write, Newline, KidGrows, KidFollows, KidNewline, KidArchived, CardMoves, Refresh, RunDies, Restart, vars
  <1>14. QED
    BY <1>5, <1>6, <1>7, <1>8, <1>9, <1>10, <1>11, <1>13, Steps DEF Feeds

-----------------------------------------------------------------------------
(* The theorems.                                                           *)

\* It all holds before the session writes its first line.
LEMMA InvInit ==
  ASSUME Init
  PROVE  Inv
  <1>1. /\ file = <<>> /\ open = FALSE /\ kid = NoKid /\ Len(<<>>) = 0 /\ DOMAIN <<>> = {} /\ Whole = 0
        /\ <<>> \in Seq(Lines) /\ <<>> \in Seq(LogEntry)
    BY EmptySeq DEF Init, Whole
  <1>2. kid \in Kid /\ kid.file = <<>> /\ kid.open = FALSE /\ kid.busy = FALSE
    BY <1>1 DEF NoKid, Kid
  <1>3. MostLines \in Nat
    BY SessionsAssumption DEF MostLines
  <1>4. real \in Real(0) /\ real.split = FALSE /\ Seen(real) = Fresh
    <2>1. real = [turn |-> "idle", woken |-> FALSE, failed |-> FALSE, agents |-> {}, async |-> {},
                  context |-> 0, split |-> FALSE]
      BY DEF Init
    <2>2. real \in Real(0) /\ real.split = FALSE
      BY <2>1 DEF Real
    <2>3. (real.turn \in {"busy", "compacting"}) = FALSE
      BY <2>1
    <2>4. real.failed = FALSE /\ real.agents = {} /\ real.context = 0
      BY <2>1
    <2>5. Seen(real) = Fresh
      BY <2>3, <2>4, Zenon DEF Seen, Fresh
    <2>6. QED
      BY <2>2, <2>5
  <1>5. FileInv
    <2>1. Len(file) = 0 /\ Len(kid.file) = 0 /\ DOMAIN file = {} /\ file \in Seq(Lines)
      BY <1>1, <1>2
    <2>2. Len(file) + Len(kid.file) <= MostLines /\ real \in Real(Len(file))
      BY <1>3, <1>4, <2>1
    <2>3. engine \in {"claude", "codex"} /\ reader \in {"cards", "log"}
      BY DEF Init
    <2>4. QED
      BY <1>1, <1>2, <2>1, <2>2, <2>3 DEF FileInv
  <1>6. Scan(engine, file, Fresh, 0, 0) = Fresh
    BY ScanNothing
  <1>7. Ran(kid.file, 0) = FALSE
    BY RanNext
  <1>8. RealInv
    BY <1>1, <1>2, <1>4, <1>6, <1>7 DEF RealInv
  <1>9. CardInv
    <2>1. vitals = NewVitals
      BY DEF Init
    <2>2. Fresh \in Vitals /\ Fresh.context = 0
      BY DEF Fresh, Vitals
    <2>3. Complete(kid.file, kid.open) = 0
      BY <1>1, <1>2 DEF Complete
    <2>4. /\ vitals \in Cards
          /\ vitals.off = 0 /\ vitals.seen = Fresh /\ vitals.childoff = 0 /\ vitals.active = FALSE
      BY <2>1, <2>2 DEF Cards, NewVitals
    <2>5. vitals.off <= Whole /\ vitals.childoff <= Complete(kid.file, kid.open) /\ vitals.seen.context <= vitals.off
      BY <1>1, <2>2, <2>3, <2>4
    <2>6. vitals.seen = Scan(engine, file, Fresh, 0, vitals.off) /\ vitals.active = Ran(kid.file, vitals.childoff)
      BY <1>6, <1>7, <2>4
    <2>7. QED
      BY <2>4, <2>5, <2>6 DEF CardInv
  <1>10. WatchTypes /\ watch.pc = "none"
    BY <1>1, SessionsAssumption DEF Init, WatchTypes, Watches, Phones, NoWatch
  <1>11. \E n \in 0..Len(Log) : phone.log \in Stretches(Log, n)
    <2>1. Len(Log) \in Nat
      BY <1>5, LogFacts
    <2>2. SubSeq(Log, 1, 0) = <<>>
      BY SubSeqEmpty
    <2>3. phone.log = <<>>
      BY DEF Init
    <2>4. QED
      BY <2>1, <2>2, <2>3 DEF Stretches
  <1>12. FeedInv
    BY <1>10, <1>11 DEF FeedInv, Follow
  <1>13. QED
    BY <1>5, <1>8, <1>9, <1>10, <1>12 DEF Inv

\* And every step keeps it.
LEMMA InvNext ==
  ASSUME Inv, [Next]_vars
  PROVE  Inv'
  <1>1. FileInv /\ RealInv /\ CardInv /\ WatchTypes /\ FeedInv
    BY DEF Inv
  <1>2. FileInv' /\ RealInv' /\ CardInv' /\ WatchTypes' /\ FeedInv'
    BY <1>1, FileInvNext, RealInvNext, CardInvNext, FeedInvNext
  <1>3. QED
    BY <1>2 DEF Inv

\* So it always holds.
LEMMA InvAlways == Spec => []Inv
  <1>1. Init => Inv
    BY InvInit
  <1>2. Inv /\ [Next]_vars => Inv'
    BY InvNext
  <1>3. QED
    BY <1>1, <1>2, PTL DEF Spec

\* The readers never run past the lines that are whole, neither file outgrows its
\* bound, and every line is one the parsers know of.
THEOREM TypeCorrect == Spec => []TypeOK
  <1>1. ASSUME Inv PROVE TypeOK
    <2>1. FileInv /\ CardInv /\ WatchTypes
      BY <1>1 DEF Inv
    <2>2. \A i \in DOMAIN file : file[i].kind \in LineKinds /\ file[i].id < Len(file) + 1
      <3>1. ASSUME NEW i \in DOMAIN file PROVE file[i].kind \in LineKinds /\ file[i].id < Len(file) + 1
        <4>1. file \in Seq(Lines) /\ i \in 1..Len(file) /\ Len(file) \in Nat
          BY <2>1, FileFacts DEF FileInv
        <4>2. file[i] \in Lines /\ file[i].id <= Len(file)
          BY <2>1, <4>1, ElementOfSeq DEF FileInv
        <4>3. file[i].kind \in LineKinds /\ file[i].id \in Nat
          BY <4>2 DEF Lines
        <4>4. QED
          BY <4>1, <4>2, <4>3
      <3>2. QED
        BY <3>1
    <2>3. kid.open \in BOOLEAN /\ real.turn \in {"idle", "busy", "compacting", "recap"}
      BY <2>1 DEF FileInv, Kid, Real
    <2>4. /\ vitals.off \in 0..Whole /\ vitals.childoff \in 0..Len(kid.file)
          /\ vitals.seen.context \in 0..vitals.off /\ vitals.polled \in BOOLEAN
      <3>0. vitals.polled \in BOOLEAN
        BY <2>1 DEF CardInv, Cards
      <3>1. /\ vitals.off \in Nat /\ vitals.childoff \in Nat /\ vitals.seen \in Vitals /\ vitals.off <= Whole
            /\ vitals.childoff <= Complete(kid.file, kid.open) /\ vitals.seen.context <= vitals.off
        BY <2>1 DEF CardInv, Cards
      <3>2. vitals.seen.context \in Nat
        BY <3>1 DEF Vitals
      <3>3. QED
        BY <2>1, <3>0, <3>1, <3>2, FileFacts
    <2>5. watch.pc \in {"none", "start", "push", "sleep"} /\ watch.off \in 0..Whole
      BY <2>1, FileFacts DEF WatchTypes, Watches
    <2>6. QED
      BY <2>1, <2>2, <2>3, <2>4, <2>5 DEF TypeOK, FileInv, WatchTypes
  <1>2. QED
    BY <1>1, InvAlways, PTL

\* A card that has read all there is says what the session does, whichever lines it
\* wrote, wherever a reading ended, and also of a child whose rollout was archived.
THEOREM VitalsTrue == Spec => []VitalsAreTrue
  <1>1. ASSUME Inv, CaughtUp, ~real.split PROVE Told
    <2>1. FileInv /\ RealInv /\ CardInv
      BY <1>1 DEF Inv
    <2>2. vitals.seen = Seen(real)
      BY <1>1, <2>1 DEF CaughtUp, RealInv, CardInv
    <2>3. /\ vitals.seen.thinking = (real.turn \in {"busy", "compacting"}) /\ vitals.seen.error = real.failed
          /\ vitals.seen.context = real.context /\ vitals.seen.agents = real.agents
      BY <2>2 DEF Seen
    <2>4. vitals.active = kid.busy
      <3>1. CASE kid.there
        BY <1>1, <2>1, <3>1 DEF CaughtUp, RealInv, CardInv
      <3>2. CASE ~kid.there
        <4>1. vitals.childoff = 0 /\ kid.busy \in BOOLEAN /\ ~kid.busy
          BY <1>1, <2>1, <3>2 DEF CaughtUp, CardInv, RealInv, FileInv, Kid
        <4>2. vitals.active = FALSE
          BY <2>1, <4>1, RanNext DEF CardInv
        <4>3. QED
          BY <4>1, <4>2
      <3>3. QED
        BY <3>1, <3>2
    <2>5. Agents = AgentsAtWork
      BY <2>3, <2>4 DEF Agents, AgentsAtWork
    <2>6. QED
      BY <2>3, <2>5, Zenon DEF Told
  <1>2. Inv => VitalsAreTrue
    BY <1>1 DEF VitalsAreTrue
  <1>3. QED
    BY <1>2, InvAlways, PTL

\* The place a stretch has come to is the one it ends at.
LEMMA ReachedIsEnd ==
  ASSUME FileInv, NEW n \in 0..Len(Log), phone.log \in Stretches(Log, n)
  PROVE  Shown!Reached \in 0..n
  <1>1. /\ Log \in Seq(LogEntry) /\ Len(Log) \in Nat /\ n \in Nat
        /\ \A i, j \in 1..Len(Log) : Log[i] = Log[j] => i = j
    BY LogFacts
  <1>2. CASE phone.log = <<>>
    BY <1>1, <1>2 DEF Shown!Reached
  <1>3. CASE phone.log # <<>>
    <2>1. PICK i \in 1..(n + 1) : phone.log = SubSeq(Log, i, n)
      BY DEF Stretches
    <2>2. i \in Int /\ n \in Int /\ i <= n
      BY <1>1, <1>3, <2>1, SubSeqEmpty
    <2>3. \A k \in i..n : Log[k] \in LogEntry
      BY <1>1, <2>2, ElementOfSeq
    <2>4. Len(phone.log) = n - i + 1 /\ phone.log[n - i + 1] = Log[i + (n - i + 1) - 1]
      BY <2>1, <2>2, <2>3, SubSeqProperties
    <2>5. phone.log[Len(phone.log)] = Log[n] /\ n \in 1..Len(Log) /\ DOMAIN Log = 1..Len(Log)
      <3>1. i + (n - i + 1) - 1 = n
        BY <2>2
      <3>2. QED
        BY <1>1, <2>1, <2>2, <2>4, <3>1
    <2>6. (CHOOSE k \in DOMAIN Log : Log[k] = phone.log[Len(phone.log)]) = n
      BY <1>1, <2>5
    <2>7. Shown!Reached = CHOOSE k \in DOMAIN Log : Log[k] = phone.log[Len(phone.log)]
      BY <1>3, Zenon DEF Shown!Reached, Shown!Last
    <2>8. n \in 0..n
      BY <1>1
    <2>9. QED
      BY <2>6, <2>7, <2>8
  <1>4. QED
    BY <1>2, <1>3

\* A step shows the phone a stretch that goes further, lets the log grow, or neither.
LEMMA FeedSteps ==
  ASSUME Inv, [Next]_vars
  PROVE  [Shown!Grow \/ Shown!Show]_<<Log, phone.log>>
  <1>1. FileInv /\ WatchTypes /\ FeedInv
    BY DEF Inv
  <1>2. /\ Log \in Seq(LogEntry) /\ Len(Log) \in Nat
    BY <1>1, LogFacts
  <1>3. CASE phone'.log = phone.log
    <2>1. PICK new \in Seq(LogEntry) : Log' = Log \o new
      BY <1>1, LogGrows
    <2>2. Len(new) \in Nat /\ Len(Log') = Len(Log) + Len(new)
      BY <1>2, <2>1, LenProperties, ConcatProperties
    <2>3. SubSeq(Log', 1, Len(Log)) = Log /\ SubSeq(Log, 1, Len(Log)) = Log
      BY <1>2, <2>1, StretchesStay, SubSeqFull
    <2>4. Shown!IsPrefix(Log, Log')
      BY <1>2, <2>2, <2>3 DEF Shown!IsPrefix
    <2>5. QED
      BY <1>3, <2>4 DEF Shown!Grow
  <1>4. CASE phone'.log # phone.log
    <2>1. Push /\ conn = "up"
      <3>1. CASE \/ Writes \/ Newline \/ KidGrows \/ KidNewline \/ KidArchived \/ CardMoves \/ UNCHANGED vars
        <4>1. phone' = phone
          BY <3>1 DEF Writes, Write, Newline, KidGrows, KidFollows, KidNewline, KidArchived, CardMoves, Refresh, RunDies, Restart, vars, feed
        <4>2. QED
          BY <1>4, <4>1
      <3>2. CASE Replay \/ Poll \/ Break \/ Detach \/ Reconnect
        BY <1>4, <3>2 DEF Replay, Poll, Break, Detach, Reconnect
      <3>3. CASE OpenView \/ CloseView
        BY <1>1, <1>4, <3>3 DEF OpenView, CloseView, WatchTypes, Phones
      <3>4. CASE Push
        BY <1>4, <3>4 DEF Push
      <3>5. QED
        BY <1>1, <3>1, <3>2, <3>3, <3>4, Steps DEF Feeds
    <2>2. /\ phone'.log \in Stretches(Log, Come(watch.off)) /\ Come(watch.off) \in 0..Len(Log)
          /\ \E n \in 0..Come(watch.off) : phone.log \in Stretches(Log, n)
      BY <1>1, <2>1, PushShows
    <2>3. PICK come \in 0..Len(Log) : come = Come(watch.off)
      BY <2>2
    <2>4. PICK n \in 0..come : phone.log \in Stretches(Log, n)
      BY <2>2, <2>3
    <2>5. Shown!Reached \in 0..n
      <3>1. n \in 0..Len(Log)
        BY <1>2
      <3>2. QED
        BY <1>1, <2>4, <3>1, ReachedIsEnd
    <2>6. come \in Shown!Reached..Len(Log)
      BY <1>2, <2>5
    <2>7. PICK i \in 1..(come + 1) : phone'.log = SubSeq(Log, i, come)
      BY <2>2, <2>3 DEF Stretches
    <2>8. i \in 1..(Len(Log) + 1)
      BY <1>2
    <2>9. Log' = Log
      BY <2>1 DEF Push, Feed, session, Log, Whole
    <2>10. QED
      BY <2>6, <2>7, <2>8, <2>9 DEF Shown!Show, Shown!Stretch
  <1>5. QED
    BY <1>3, <1>4

\* What the detail view shows is a stretch of the log, without gaps or repetitions,
\* and it never goes back: however replays, polls and broken sockets fall.
THEOREM ImplementsLogFeed == Spec => FeedIsFaithful
  <1>1. Init => Shown!Init
    <2>1. ASSUME Init PROVE Shown!Init
      <3>1. Whole = 0 /\ phone.log = <<>>
        BY <2>1, EmptySeq DEF Init, Whole
      <3>2. Entries(engine, file, 0, 0) = <<>>
        BY EntriesNothing
      <3>3. QED
        BY <3>1, <3>2 DEF Shown!Init, Log
    <2>2. QED
      BY <2>1
  <1>2. Inv /\ [Next]_vars => [Shown!Grow \/ Shown!Show]_<<Log, phone.log>>
    BY FeedSteps
  <1>3. QED
    BY <1>1, <1>2, InvAlways, PTL DEF Spec, FeedIsFaithful, Shown!Spec
=============================================================================
