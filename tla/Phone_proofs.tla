------------------------------- MODULE Phone_proofs -------------------------------
(***************************************************************************)
(* Proofs about Phone, for every set of requests, every time limit and     *)
(* every bound: type correctness, and what the lockout, the challenges and *)
(* the revocations admit.  Each property has an inductive invariant of its *)
(* own, over the typing of all variables.                                  *)
(***************************************************************************)
EXTENDS Phone, FiniteSetTheorems, SequenceTheorems, TLAPS

-----------------------------------------------------------------------------
(* Typing: the sets of values of every variable, sharper than TypeOK.      *)

Ids == 1..MaxChallenges
Token == [token : Ids, expires : Nat]
Row == [key : Ids, revoked : BOOLEAN]
Admitted == [id : Ids, key : Ids, age : Int]
Bar == [key : Ids, after : Nat]
History == [ guesses : Seq(0..MaxClock), begun : 0..MaxChallenges,
             minted : Seq(Admitted), barred : SUBSET Bar ]

AuthTypes ==
  /\ scale \in {"minutes", "seconds"} /\ clock \in 0..MaxClock
  /\ failures \in 0..(Attempts - 1) /\ lockedUntil \in 0..(MaxClock + Lockout)
  /\ pairings \in SUBSET Flow /\ logins \in SUBSET Flow
  /\ sessions \in SUBSET Token /\ rows \in SUBSET Row
  /\ history \in History

Verdicts == {"allow", "deny"}
Hook == [ pc : {"idle", "posted", "done"}, age : 0..HookWait,
          result : {"none", "silent"} \cup Verdicts ]
Gate == [ pc : {"none", "notify", "waiting", "set", "over", "closed"}, live : BOOLEAN, shown : BOOLEAN,
          wait : 0..HookWait, verdict : {"none"} \cup Verdicts, slow : BOOLEAN, late : BOOLEAN ]
Answer == [req : Requests, verdict : Verdicts]

AskTypes ==
  /\ boot \in 1..MaxBoots /\ conn \in {"up", "dead", "down"}
  /\ hook \in [Requests -> Hook]
  /\ gate \in [Requests -> Gate]
  /\ pending \in SUBSET Requests /\ cards \in SUBSET Requests
  /\ answers \in Seq(Answer)
  /\ tapped \in [Requests -> {"none"} \cup Verdicts]

Types == AuthTypes /\ AskTypes

-----------------------------------------------------------------------------
(* The inductive invariants of the properties.                             *)

(* Within a lockout's time there are no more guesses than failures have    *)
(* been counted, or there is a lockout that outlasts them all.             *)
GuessInv ==
  /\ Len(history.guesses) <= Attempts
  /\ ~Locked => Len(history.guesses) <= failures
  /\ \A i \in DOMAIN history.guesses :
       /\ history.guesses[i] <= clock
       /\ Locked => history.guesses[i] + Lockout <= lockedUntil

(* A number is handed out once: to a pairing, a login, or a token minted   *)
(* for it; and a passkey is named after a pairing that is over.            *)
FlowInv ==
  LET minted == history.minted IN
  /\ \A e \in pairings \cup logins : e.id <= history.begun
  /\ \A e, f \in pairings \cup logins : e.id = f.id => e = f
  /\ pairings \cap logins = {}
  /\ \A i \in DOMAIN minted : minted[i].id <= history.begun
  /\ \A i \in DOMAIN minted : \A e \in pairings \cup logins : minted[i].id # e.id
  /\ \A r \in rows : r.key <= history.begun
  /\ \A r \in rows : \A e \in pairings \cup logins : r.key # e.id
  /\ \A r, s \in rows : r.key = s.key => r = s
  /\ \A b \in history.barred :
       /\ b.after <= Len(minted)
       /\ \E r \in rows : r.key = b.key /\ r.revoked

AdmissionInv == FlowInv /\ Admission

-----------------------------------------------------------------------------
(* Type correctness.                                                       *)

\* The names of the constants' parts that the arithmetic of the steps needs.
LEMMA Constants ==
  /\ Attempts \in Nat \ {0} /\ Lockout \in Nat \ {0}
  /\ PairingTtl \in Nat /\ LoginTtl \in Nat /\ SessionTtl \in Nat
  /\ MaxClock \in Nat /\ MaxGuesses \in Nat /\ MaxChallenges \in Nat \ {0}
  /\ ServerWait \in Nat \ {0} /\ HookWait \in Nat /\ HookWait >= ServerWait
  /\ MaxBoots \in Nat \ {0}
  BY AuthAssumption, ApprovalsAssumption, PhoneAssumption

\* Recent leaves a sequence of clock readings that is no longer, and one that is
\* shorter by the number of guesses that are too old; what it keeps, it keeps in order.
LEMMA RecentType ==
  ASSUME NEW g \in Seq(0..MaxClock), NEW now \in Nat
  PROVE  /\ Cardinality(Old(g, now)) \in 0..Len(g)
         /\ Recent(g, now) \in Seq(0..MaxClock)
         /\ Len(Recent(g, now)) = Len(g) - Cardinality(Old(g, now))
         /\ \A i \in 1..Len(Recent(g, now)) :
              Recent(g, now)[i] = g[i + Cardinality(Old(g, now))]
  <1> DEFINE n == Cardinality(Old(g, now))
  <1>1. Len(g) \in Nat /\ DOMAIN g = 1..Len(g)
    BY LenProperties
  <1>2. IsFiniteSet(1..Len(g)) /\ Cardinality(1..Len(g)) = Len(g)
    BY <1>1, FS_Interval
  <1>3. Old(g, now) \subseteq 1..Len(g)
    BY <1>1 DEF Old
  <1>4. n \in 0..Len(g)
    <2>1. IsFiniteSet(Old(g, now)) /\ n <= Len(g)
      BY <1>2, <1>3, FS_Subset
    <2>2. n \in Nat
      BY <2>1, FS_CardinalityType
    <2>3. QED
      BY <1>1, <2>1, <2>2
  <1> HIDE DEF n
  <1>5. \A i \in (n + 1)..Len(g) : g[i] \in 0..MaxClock
    <2> SUFFICES ASSUME NEW i \in (n + 1)..Len(g) PROVE g[i] \in 0..MaxClock
      OBVIOUS
    <2>1. i \in 1..Len(g)
      BY <1>1, <1>4
    <2>2. QED
      BY <2>1, ElementOfSeq
  <1>6. PICK q : q = Recent(g, now)
    OBVIOUS
  <1>7. /\ q \in Seq(0..MaxClock)
        /\ Len(q) = IF n + 1 <= Len(g) THEN Len(g) - (n + 1) + 1 ELSE 0
        /\ \A i \in 1..(Len(g) - (n + 1) + 1) : q[i] = g[(n + 1) + i - 1]
    <2>1. q = SubSeq(g, n + 1, Len(g))
      BY <1>6 DEF Recent, n
    <2>2. QED
      BY <1>1, <1>4, <1>5, <2>1, SubSeqProperties
  <1>8. Len(q) = Len(g) - n
    <2>1. PICK k \in Nat : k = Len(g)
      BY <1>1
    <2>2. Len(q) = IF n + 1 <= k THEN k - (n + 1) + 1 ELSE 0
      BY <1>7, <2>1
    <2>3. n \in 0..k
      BY <1>4, <2>1
    <2>4. Len(q) = k - n
      BY <2>2, <2>3
    <2>5. QED
      BY <2>1, <2>4
  <1>9. \A i \in 1..Len(q) : q[i] = g[i + n]
    <2>1. SUFFICES ASSUME NEW i \in 1..Len(q) PROVE g[(n + 1) + i - 1] = g[i + n]
      BY <1>1, <1>4, <1>7, <1>8
    <2>2. (n + 1) + i - 1 = i + n
      BY <1>1, <1>4, <1>8
    <2>3. QED
      BY <2>2
  <1>10. QED
    BY <1>4, <1>6, <1>7, <1>8, <1>9 DEF n

\* The first state has the types.
LEMMA TypesInit == Init => Types
  <1> SUFFICES ASSUME Init PROVE Types
    OBVIOUS
  <1> USE Constants
  <1>1. 0 \in 0..MaxClock /\ 0 \in 0..(Attempts - 1) /\ 0 \in 0..(MaxClock + Lockout)
        /\ 0 \in 0..MaxChallenges /\ 1 \in 0..MaxChallenges /\ 1 \in Ids /\ 0 \in 0..HookWait
    BY DEF Ids
  <1>2. Nothing \in History /\ [Nothing EXCEPT !.begun = 1] \in History
    <2>1. <<>> \in Seq(0..MaxClock) /\ <<>> \in Seq(Admitted)
      BY EmptySeq
    <2>2. Nothing \in History
      BY <1>1, <2>1 DEF Nothing, History
    <2>3. [Nothing EXCEPT !.begun = 1] \in History
      BY <1>1, <2>2 DEF History
    <2>4. QED
      BY <2>2, <2>3
  <1>3. AuthTypes
    <2>1. history \in History
      BY <1>2 DEF Init, AuthInit
    <2>2. rows \in SUBSET Row
      <3>1. [key |-> 1, revoked |-> FALSE] \in Row
        BY <1>1 DEF Row
      <3>2. QED
        BY <3>1 DEF Init, AuthInit
    <2>3. QED
      BY <1>1, <2>1, <2>2 DEF Init, AuthInit, AuthTypes
  <1>4. [pc |-> "idle", age |-> 0, result |-> "none"] \in Hook /\ NoGate \in Gate
    BY <1>1 DEF Hook, Gate, NoGate
  <1>5. AskTypes
    BY <1>4 DEF Init, AskInit, AskTypes
  <1>6. QED
    BY <1>3, <1>5 DEF Types

\* A pairing or a login that begins is a flow, and leaves a history.
LEMMA BeginType ==
  ASSUME AuthTypes, NEW flows \in SUBSET Flow, NEW ttl, history.begun < MaxChallenges
  PROVE  /\ Begin(flows, ttl) \in SUBSET Flow
         /\ Begun \in History /\ [Begun EXCEPT !.guesses = <<>>] \in History
  <1> USE Constants
  <1>1. history.begun + 1 \in 1..MaxChallenges /\ clock \in 0..MaxClock
    BY DEF AuthTypes, History
  <1>2. [id |-> history.begun + 1, at |-> clock] \in Flow
    BY <1>1 DEF Flow
  <1>3. PICK n \in 0..MaxChallenges : n = history.begun + 1
    BY <1>1
  <1>4. [history EXCEPT !.begun = n] \in History
    BY DEF AuthTypes, History
  <1>5. [history EXCEPT !.begun = n, !.guesses = <<>>] \in History
    <2>1. <<>> \in Seq(0..MaxClock)
      BY EmptySeq
    <2>2. QED
      BY <2>1 DEF AuthTypes, History
  <1>6. QED
    BY <1>2, <1>3, <1>4, <1>5 DEF Begin, Pruned, Begun

\* A token is minted for a flow that is not over and a key of the table.
LEMMA MintType ==
  ASSUME AuthTypes, NEW e \in Flow, NEW key \in Ids, Mint(e, key)
  PROVE  sessions' \in SUBSET Token /\ history' \in History
  <1> USE Constants
  <1>1. clock + SessionTtl \in Nat /\ clock - e.at \in Int /\ e.id \in Ids
    BY DEF AuthTypes, Flow, Ids
  <1>2. [token |-> e.id, expires |-> clock + SessionTtl] \in Token
    BY <1>1 DEF Token
  <1>3. [id |-> e.id, key |-> key, age |-> clock - e.at] \in Admitted
    BY <1>1 DEF Admitted
  <1>4. Append(history.minted, [id |-> e.id, key |-> key, age |-> clock - e.at]) \in Seq(Admitted)
    BY <1>3 DEF AuthTypes, History
  <1>5. PICK m \in Seq(Admitted) : m = Append(history.minted, [id |-> e.id, key |-> key, age |-> clock - e.at])
    BY <1>4
  <1>6. [history EXCEPT !.minted = m] \in History
    BY DEF AuthTypes, History
  <1>7. QED
    BY <1>2, <1>5, <1>6 DEF Mint, AuthTypes

\* A step of Auth, or of the clock it ticks by, keeps the types.
LEMMA AuthTypesStep == Types /\ [Next]_vars => AuthTypes'
  <1> SUFFICES ASSUME Types, [Next]_vars PROVE AuthTypes'
    OBVIOUS
  <1> USE Constants
  <1>0. AuthTypes
    BY DEF Types
  <1>1. CASE WrongPin
    <2>1. clock + Lockout \in 0..(MaxClock + Lockout)
      BY <1>0 DEF AuthTypes
    <2>2. failures' \in 0..(Attempts - 1) /\ lockedUntil' \in 0..(MaxClock + Lockout)
      <3>1. CASE failures + 1 >= Attempts
        BY <1>0, <1>1, <2>1, <3>1, SMTT(30) DEF WrongPin, Locks, LockEnds, AuthTypes
      <3>2. CASE ~(failures + 1 >= Attempts)
        <4>1. failures + 1 \in 0..(Attempts - 1)
          BY <1>0, <3>2 DEF AuthTypes
        <4>2. QED
          BY <1>0, <1>1, <3>2, <4>1 DEF WrongPin, Locks, AuthTypes
      <3>3. QED
        BY <3>1, <3>2
    <2>3. PICK g \in Seq(0..MaxClock) : g = Append(history.guesses, clock)
      BY <1>0, AppendProperties DEF AuthTypes, History
    <2>4. [history EXCEPT !.guesses = g] \in History
      BY <1>0 DEF AuthTypes, History
    <2>5. history' \in History
      BY <1>1, <2>3, <2>4 DEF WrongPin
    <2>6. QED
      BY <1>0, <1>1, <2>2, <2>5 DEF WrongPin, AuthTypes
  <1>2. CASE PairStart
    <2>1. pairings' \in SUBSET Flow /\ history' \in History
      BY <1>0, <1>2, BeginType DEF PairStart, AuthTypes
    <2>2. QED
      BY <1>0, <1>2, <2>1 DEF PairStart, AuthTypes
  <1>3. ASSUME NEW e \in pairings, PairFinish(e) PROVE AuthTypes'
    <2>1. e \in Flow /\ e.id \in Ids
      BY <1>0 DEF AuthTypes, Flow, Ids
    <2>2. [key |-> e.id, revoked |-> FALSE] \in Row
      BY <2>1 DEF Row
    <2>3. sessions' \in SUBSET Token /\ history' \in History
      BY <1>0, <1>3, <2>1, MintType DEF PairFinish
    <2>4. QED
      BY <1>0, <1>3, <2>2, <2>3 DEF PairFinish, Pop, AuthTypes
  <1>4. ASSUME NEW e \in pairings, PairRefused(e) PROVE AuthTypes'
    BY <1>0, <1>4 DEF PairRefused, Pop, AuthTypes
  <1>5. CASE LoginStart
    <2>1. logins' \in SUBSET Flow /\ history' \in History
      BY <1>0, <1>5, BeginType DEF LoginStart, AuthTypes
    <2>2. QED
      BY <1>0, <1>5, <2>1 DEF LoginStart, AuthTypes
  <1>6. ASSUME NEW e \in logins, NEW r \in rows, LoginFinish(e, r.key) PROVE AuthTypes'
    <2>1. e \in Flow /\ r.key \in Ids
      BY <1>0 DEF AuthTypes, Row
    <2>2. sessions' \in SUBSET Token /\ history' \in History
      BY <1>0, <1>6, <2>1, MintType DEF LoginFinish
    <2>3. QED
      BY <1>0, <1>6, <2>2 DEF LoginFinish, Pop, AuthTypes
  <1>7. ASSUME NEW e \in logins, LoginRefused(e) PROVE AuthTypes'
    BY <1>0, <1>7 DEF LoginRefused, Pop, AuthTypes
  <1>8. ASSUME NEW r \in rows, Revoke(r) PROVE AuthTypes'
    <2>1. r \in Row /\ [r EXCEPT !.revoked = TRUE] \in Row
      BY <1>0 DEF AuthTypes, Row
    <2>2. Len(history.minted) \in Nat /\ r.key \in Ids
      BY <1>0, <2>1, LenProperties DEF AuthTypes, History, Row
    <2>3. [key |-> r.key, after |-> Len(history.minted)] \in Bar
      BY <2>2 DEF Bar
    <2>4. PICK b \in SUBSET Bar :
            b = history.barred \cup {[key |-> r.key, after |-> Len(history.minted)]}
      BY <1>0, <2>3 DEF AuthTypes, History
    <2>5. [history EXCEPT !.barred = b] \in History
      BY <1>0 DEF AuthTypes, History
    <2>6. QED
      BY <1>0, <1>8, <2>1, <2>4, <2>5 DEF Revoke, AuthTypes
  <1>9. CASE TimePasses
    <2>1. clock + 1 \in 0..MaxClock /\ clock + 1 \in Nat
      BY <1>0, <1>9 DEF TimePasses, AuthTypes
    <2>2. PICK g \in Seq(0..MaxClock) : g = Recent(history.guesses, clock + 1)
      BY <1>0, <2>1, RecentType DEF AuthTypes, History
    <2>3. [history EXCEPT !.guesses = g] \in History
      BY <1>0 DEF AuthTypes, History
    <2>4. QED
      BY <1>0, <1>9, <2>1, <2>2, <2>3 DEF TimePasses, AuthTypes
  <1>10. CASE Restart
    <2>1. <<>> \in Seq(0..MaxClock)
      BY EmptySeq
    <2>2. [history EXCEPT !.guesses = <<>>] \in History
      BY <1>0, <2>1 DEF AuthTypes, History
    <2>3. QED
      BY <1>0, <1>10, <2>2 DEF Restart, AuthForgets, AuthTypes
  <1>11. CASE UNCHANGED auth
    BY <1>0, <1>11 DEF auth, AuthTypes
  <1>12. UNCHANGED auth \/ ~UNCHANGED vars
    BY DEF vars
  <1>13. QED
    BY <1>1, <1>2, <1>3, <1>4, <1>5, <1>6, <1>7, <1>8, <1>9, <1>10, <1>11, <1>12
    DEF Next, Ask, AskForbidden, CardArrives, Notified, Tap, Fade, Resolve, Answered, TimesUp, TimedOut,
        HookGivesUp, SecondsPass, Break, Detach, Hello

\* The updates of a handler's record that the steps make leave such a record.
LEMMA GateUpdate ==
  ASSUME NEW g \in Gate
  PROVE  /\ [g EXCEPT !.pc = "closed", !.wait = 0] \in Gate
         /\ \A pc \in {"waiting", "set"} : [g EXCEPT !.pc = pc, !.live = FALSE, !.shown = FALSE] \in Gate
         /\ [g EXCEPT !.pc = "over"] \in Gate
         /\ [g EXCEPT !.live = FALSE] \in Gate
         /\ \A live \in BOOLEAN : [g EXCEPT !.pc = "notify", !.live = live] \in Gate
         /\ \A pc \in {"notify", "set"}, v \in Verdicts, late \in BOOLEAN :
              [g EXCEPT !.pc = pc, !.verdict = v, !.late = late] \in Gate
         /\ \A slow \in BOOLEAN : [g EXCEPT !.slow = slow] \in Gate
         /\ \A w \in 0..HookWait : [g EXCEPT !.wait = w] \in Gate
  <1>1. 0 \in 0..HookWait
    BY Constants
  <1>2. QED
    BY <1>1 DEF Gate

\* A hook that is told something has ended.
LEMMA ToldType ==
  ASSUME AskTypes, NEW r \in Requests, NEW result \in {"none", "silent"} \cup Verdicts
  PROVE  /\ Told(r, result) \in [Requests -> Hook]
         /\ Reply(r, result) => hook' \in [Requests -> Hook]
  <1>1. [pc |-> "done", age |-> 0, result |-> result] \in Hook
    BY Constants DEF Hook
  <1>2. Told(r, result) \in [Requests -> Hook]
    BY <1>1 DEF Told, AskTypes
  <1>3. QED
    BY <1>2 DEF Reply, AskTypes

\* A handler that closes.
LEMMA ClosedType ==
  ASSUME AskTypes, NEW r \in Requests, Closed(r)
  PROVE  gate' \in [Requests -> Gate]
  BY GateUpdate DEF Closed, AskTypes

\* A step of the approvals keeps the types.
LEMMA AskTypesStep == Types /\ [Next]_vars => AskTypes'
  <1> SUFFICES ASSUME Types, [Next]_vars PROVE AskTypes'
    OBVIOUS
  <1> USE Constants
  <1>0. AskTypes
    BY DEF Types
  <1>1. ASSUME NEW r \in Requests, Ask(r) PROVE AskTypes'
    <2>1. [hook[r] EXCEPT !.pc = "posted"] \in Hook
      BY <1>0 DEF AskTypes, Hook
    <2>2. hook' \in [Requests -> Hook]
      BY <1>0, <1>1, <2>1 DEF Ask, AskTypes
    <2>3. [NoGate EXCEPT !.pc = "notify", !.live = conn # "down"] \in Gate
      <3>1. PICK live \in BOOLEAN : live = (conn # "down")
        OBVIOUS
      <3>2. NoGate \in Gate
        BY DEF NoGate, Gate
      <3>3. [NoGate EXCEPT !.pc = "notify", !.live = live] \in Gate
        BY <3>2, GateUpdate
      <3>4. QED
        BY <3>1, <3>3
    <2>4. gate' \in [Requests -> Gate]
      BY <1>0, <1>1, <2>3 DEF Ask, AskTypes
    <2>5. QED
      BY <1>0, <1>1, <2>2, <2>4 DEF Ask, AskTypes
  <1>2. ASSUME NEW r \in Requests, AskForbidden(r) PROVE AskTypes'
    BY <1>0, <1>2, ToldType DEF AskForbidden, AskTypes
  <1>3. ASSUME NEW r \in Requests, Notified(r) PROVE AskTypes'
    <2> DEFINE pc == IF gate[r].verdict = "none" THEN "waiting" ELSE "set"
    <2>1. [gate[r] EXCEPT !.pc = pc, !.live = FALSE, !.shown = FALSE] \in Gate
      <3>1. pc \in {"waiting", "set"}
        OBVIOUS
      <3> HIDE DEF pc
      <3>2. QED
        BY <1>0, <3>1, GateUpdate DEF AskTypes
    <2>2. gate' = [gate EXCEPT ![r] = [gate[r] EXCEPT !.pc = pc, !.live = FALSE, !.shown = FALSE]]
      BY <1>3 DEF Notified
    <2> HIDE DEF pc
    <2>3. gate' \in [Requests -> Gate]
      BY <1>0, <2>1, <2>2 DEF AskTypes
    <2>4. QED
      BY <1>0, <1>3, <2>3 DEF Notified, AskTypes
  <1>3a. ASSUME NEW r \in Requests, CardArrives(r) PROVE AskTypes'
    <2>1. gate' = [gate EXCEPT ![r] = [gate[r] EXCEPT !.shown = TRUE]]
      BY <1>3a DEF CardArrives
    <2>2. [gate[r] EXCEPT !.shown = TRUE] \in Gate
      BY <1>0 DEF AskTypes, Gate
    <2>3. gate' \in [Requests -> Gate]
      BY <1>0, <2>1, <2>2 DEF AskTypes
    <2>4. QED
      BY <1>0, <1>3a, <2>3 DEF CardArrives, AskTypes
  <1>4. ASSUME NEW r \in Requests, NEW verdict \in Verdicts, Tap(r, verdict) PROVE AskTypes'
    <2>1. tapped' \in [Requests -> {"none"} \cup Verdicts]
      BY <1>0, <1>4 DEF Tap, AskTypes
    <2>2. [req |-> r, verdict |-> verdict] \in Answer
      BY DEF Answer
    <2>3. answers' \in Seq(Answer)
      BY <1>0, <1>4, <2>2, AppendProperties DEF Tap, AskTypes
    <2>4. QED
      BY <1>0, <1>4, <2>1, <2>3 DEF Tap, AskTypes
  <1>5. ASSUME NEW r \in Requests, Fade(r) PROVE AskTypes'
    BY <1>0, <1>5 DEF Fade, AskTypes
  <1>6. CASE Resolve
    <2>1. Head(answers) \in Answer /\ Tail(answers) \in Seq(Answer)
      BY <1>0, <1>6, HeadTailProperties DEF Resolve, AskTypes
    <2>2. gate' \in [Requests -> Gate]
      <3> DEFINE r == Head(answers).req
                 v == Head(answers).verdict
      <3>1. r \in Requests /\ v \in Verdicts /\ Due(r) \in BOOLEAN
        BY <2>1 DEF Due, Answer
      <3> DEFINE pc == IF gate[r].pc = "notify" THEN "notify" ELSE "set"
      <3>2. gate' = [gate EXCEPT ![r] = [gate[r] EXCEPT !.pc = pc, !.verdict = v, !.late = Due(r)]]
              \/ gate' = gate
        BY <1>6 DEF Resolve
      <3>2a. pc \in {"notify", "set"}
        OBVIOUS
      <3> HIDE DEF r, v, pc
      <3>3. [gate[r] EXCEPT !.pc = pc, !.verdict = v, !.late = Due(r)] \in Gate
        BY <1>0, <3>1, <3>2a, GateUpdate DEF AskTypes
      <3>4. QED
        BY <1>0, <3>1, <3>2, <3>3 DEF AskTypes
    <2>3. QED
      BY <1>0, <1>6, <2>1, <2>2 DEF Resolve, AskTypes
  <1>7. ASSUME NEW r \in Requests, Answered(r) PROVE AskTypes'
    <2>1. gate[r].verdict \in {"none"} \cup Verdicts
      BY <1>0, <1>7 DEF AskTypes, Gate
    <2>2. gate' \in [Requests -> Gate] /\ hook' \in [Requests -> Hook]
      BY <1>0, <1>7, <2>1, ToldType, ClosedType DEF Answered
    <2>3. QED
      BY <1>0, <1>7, <2>2 DEF Answered, AskTypes
  <1>8. ASSUME NEW r \in Requests, TimesUp(r) PROVE AskTypes'
    <2>1. gate' \in [Requests -> Gate]
      BY <1>0, <1>8, GateUpdate DEF TimesUp, AskTypes
    <2>2. QED
      BY <1>0, <1>8, <2>1 DEF TimesUp, AskTypes
  <1>9. ASSUME NEW r \in Requests, TimedOut(r) PROVE AskTypes'
    <2>1. gate' \in [Requests -> Gate] /\ hook' \in [Requests -> Hook]
      BY <1>0, <1>9, ToldType, ClosedType DEF TimedOut, Silence
    <2>2. QED
      BY <1>0, <1>9, <2>1 DEF TimedOut, Popped, AskTypes
  <1>10. ASSUME NEW r \in Requests, HookGivesUp(r) PROVE AskTypes'
    BY <1>0, <1>10, ToldType DEF HookGivesUp, Silence, AskTypes
  <1>11. CASE SecondsPass
    <2>1. ASSUME NEW r \in Requests, hook[r].pc = "posted" PROVE [hook[r] EXCEPT !.age = @ + 1] \in Hook
      <3>1. hook[r].age + 1 \in 0..HookWait
        BY <1>0, <1>11, <2>1 DEF SecondsPass, Prompt, AskTypes, Hook
      <3>2. QED
        BY <1>0, <3>1 DEF AskTypes, Hook
    <2>2. hook' \in [Requests -> Hook]
      BY <1>0, <1>11, <2>1 DEF SecondsPass, AskTypes
    <2>3. ASSUME NEW r \in Requests, gate[r].pc = "waiting" PROVE [gate[r] EXCEPT !.wait = @ + 1] \in Gate
      <3>1. gate[r].wait + 1 \in 0..HookWait
        BY <1>0, <1>11, <2>3 DEF SecondsPass, Prompt, Due, AskTypes, Gate
      <3>2. QED
        BY <1>0, <3>1, GateUpdate DEF AskTypes
    <2>4. ASSUME NEW r \in Requests
          PROVE  [gate[r] EXCEPT !.slow = @ \/ hook[r].age >= HookWait - ServerWait] \in Gate
      <3>1. (gate[r].slow \/ hook[r].age >= HookWait - ServerWait) \in BOOLEAN
        BY <1>0 DEF AskTypes, Gate
      <3>2. QED
        BY <1>0, <3>1, GateUpdate DEF AskTypes
    <2>5. gate' \in [Requests -> Gate]
      BY <1>0, <1>11, <2>3, <2>4 DEF SecondsPass, Aged, AskTypes
    <2>6. QED
      BY <1>0, <1>11, <2>2, <2>5 DEF SecondsPass, AskTypes
  <1>12. CASE Break
    <2>1. PICK sent \in Prefixes(answers) : answers' = sent
      BY <1>12 DEF Break
    <2>2. PICK l \in 0..Len(answers) : sent = SubSeq(answers, 1, l)
      BY <2>1 DEF Prefixes
    <2>3. sent \in Seq(Answer)
      <3>1. \A i \in 1..l : answers[i] \in Answer
        <4>1. Len(answers) \in Nat /\ answers \in Seq(Answer)
          BY <1>0, LenProperties DEF AskTypes
        <4>2. \A i \in 1..l : i \in 1..Len(answers)
          BY <4>1
        <4>3. QED
          BY <4>1, <4>2, ElementOfSeq
      <3>2. QED
        BY <2>2, <3>1, SubSeqProperties
    <2>4. QED
      BY <1>0, <1>12, <2>1, <2>3 DEF Break, AskTypes
  <1>13. ASSUME SendsFail PROVE gate' \in [Requests -> Gate]
    BY <1>0, <1>13, GateUpdate DEF SendsFail, AskTypes
  <1>14. CASE Detach
    BY <1>0, <1>13, <1>14 DEF Detach, AskTypes
  <1>15. ASSUME NEW s \in sessions, Hello(s.token) PROVE AskTypes'
    <2>1. <<>> \in Seq(Answer)
      BY EmptySeq
    <2>2. QED
      BY <1>0, <1>13, <1>15, <2>1 DEF Hello, AskTypes
  <1>16. CASE Restart
    <2>1. <<>> \in Seq(Answer) /\ NoGate \in Gate
      BY EmptySeq DEF NoGate, Gate
    <2>2. \A r \in Requests : Told(r, Silence)[r] \in Hook
      BY <1>0, ToldType DEF Silence
    <2>3. hook' \in [Requests -> Hook] /\ gate' \in [Requests -> Gate]
      BY <1>0, <1>16, <2>1, <2>2 DEF Restart, AskTypes
    <2>4. boot' \in 1..MaxBoots
      BY <1>0, <1>16 DEF Restart, AskTypes
    <2>5. QED
      BY <1>0, <1>16, <2>1, <2>3, <2>4 DEF Restart, AskTypes
  <1>17. CASE UNCHANGED asking
    BY <1>0, <1>17 DEF asking, AskTypes
  <1>18. QED
    BY <1>1, <1>2, <1>3, <1>3a, <1>4, <1>5, <1>6, <1>7, <1>8, <1>9, <1>10, <1>11, <1>12, <1>14, <1>15,
       <1>16, <1>17 DEF Next, vars, Verdicts

\* Every variable keeps its type, whatever the constants.
LEMMA TypesAlways == Spec => []Types
  <1>1. Types /\ [Next]_vars => Types'
    BY AuthTypesStep, AskTypesStep DEF Types
  <1>2. QED
    BY TypesInit, <1>1, PTL DEF Spec

\* Phone keeps the type invariant its run checks.
THEOREM TypeCorrect == Spec => []TypeOK
  <1>1. Types => TypeOK
    BY DEF Types, AuthTypes, AskTypes, TypeOK, Token, Row, Hook, Gate, Ids
  <1>2. QED
    BY TypesAlways, <1>1, PTL

-----------------------------------------------------------------------------
(* The lockout.                                                            *)

\* The steps that are no guess, no right PIN, no tick and no restart keep what
\* the lockout is about.
LEMMA GuessFrame ==
  ASSUME Types, Next,
         ~WrongPin, ~PairStart, ~TimePasses, ~Restart
  PROVE  UNCHANGED <<clock, failures, lockedUntil>> /\ history'.guesses = history.guesses
  <1>1. history \in History
    BY DEF Types, AuthTypes
  <1>2. ASSUME NEW e, NEW key, Mint(e, key) PROVE history'.guesses = history.guesses
    BY <1>1, <1>2 DEF Mint, History
  <1>3. CASE \E e \in pairings : PairFinish(e)
    BY <1>2, <1>3 DEF PairFinish
  <1>4. CASE \E e \in pairings : PairRefused(e)
    BY <1>4 DEF PairRefused
  <1>5. CASE LoginStart
    BY <1>1, <1>5 DEF LoginStart, Begun, History
  <1>6. CASE \E e \in logins, r \in rows : LoginFinish(e, r.key)
    BY <1>2, <1>6 DEF LoginFinish
  <1>7. CASE \E e \in logins : LoginRefused(e)
    BY <1>7 DEF LoginRefused
  <1>8. CASE \E r \in rows : Revoke(r)
    BY <1>1, <1>8 DEF Revoke, History
  <1>9. CASE UNCHANGED auth
    BY <1>9 DEF auth
  <1>10. QED
    BY <1>3, <1>4, <1>5, <1>6, <1>7, <1>8, <1>9
    DEF Next, Ask, AskForbidden, CardArrives, Notified, Tap, Fade, Resolve, Answered, TimesUp, TimedOut,
        HookGivesUp, SecondsPass, Break, Detach, Hello

\* A tick keeps the invariant: the guesses of an outlasted lockout are all too old.
LEMMA GuessTick == Types /\ GuessInv /\ TimePasses => GuessInv'
  <1> SUFFICES ASSUME Types, GuessInv, TimePasses PROVE GuessInv'
    OBVIOUS
  <1> USE Constants
  <1> DEFINE g == history.guesses
             h == history'.guesses
             n == Cardinality(Old(g, clock + 1))
  <1>1. /\ clock \in Nat /\ clock + 1 \in Nat /\ clock' = clock + 1 /\ g \in Seq(0..MaxClock)
        /\ lockedUntil \in Nat /\ failures \in Nat /\ UNCHANGED <<failures, lockedUntil>>
    BY SMTT(30) DEF Types, AuthTypes, History, TimePasses
  <1>2. h = Recent(g, clock + 1)
    BY DEF Types, AuthTypes, History, TimePasses
  <1>3. /\ n \in 0..Len(g) /\ h \in Seq(0..MaxClock) /\ Len(h) = Len(g) - n
        /\ \A i \in 1..Len(h) : h[i] = g[i + n]
    BY <1>1, <1>2, RecentType, SMTT(30)
  <1>4. /\ Len(g) \in Nat /\ DOMAIN g = 1..Len(g) /\ Len(h) \in Nat /\ DOMAIN h = 1..Len(h)
        /\ \A i \in 1..Len(g) : g[i] \in Nat
    BY <1>1, <1>3, LenProperties, ElementOfSeq
  <1> HIDE DEF g, h, n
  <1>5. Len(h) <= Len(g)
    BY <1>3, <1>4
  <1>6. \A i \in 1..Len(h) : i + n \in 1..Len(g)
    BY <1>3, <1>4
  <1>7. \A i \in 1..Len(g) : g[i] <= clock /\ (clock < lockedUntil => g[i] + Lockout <= lockedUntil)
    BY <1>4 DEF GuessInv, Locked, g
  <1>8. CASE ~(clock < lockedUntil)
    <2>1. Len(g) <= failures /\ Len(g) <= Attempts
      BY <1>8 DEF GuessInv, Locked, g
    <2>2. Len(h) <= failures /\ Len(h) <= Attempts
      BY <1>1, <1>4, <1>5, <2>1
    <2>3. ~(clock + 1 < lockedUntil)
      BY <1>1, <1>8
    <2>4. \A i \in 1..Len(h) : h[i] <= clock + 1
      <3> SUFFICES ASSUME NEW i \in 1..Len(h) PROVE h[i] <= clock + 1
        OBVIOUS
      <3>1. PICK j \in 1..Len(g) : h[i] = g[j]
        BY <1>3, <1>6
      <3>2. g[j] \in Nat /\ g[j] <= clock
        BY <1>4, <1>7
      <3>3. QED
        BY <1>1, <3>1, <3>2
    <2>5. QED
      BY <1>1, <1>4, <2>2, <2>3, <2>4 DEF GuessInv, Locked, h
  <1>9. CASE clock < lockedUntil
    <2>1. Len(h) <= Attempts
      BY <1>4, <1>5 DEF GuessInv, g
    <2>2. \A i \in 1..Len(h) : h[i] <= clock + 1 /\ h[i] + Lockout <= lockedUntil
      <3> SUFFICES ASSUME NEW i \in 1..Len(h)
                   PROVE  h[i] <= clock + 1 /\ h[i] + Lockout <= lockedUntil
        OBVIOUS
      <3>1. PICK j \in 1..Len(g) : h[i] = g[j]
        BY <1>3, <1>6
      <3>2. g[j] \in Nat /\ g[j] <= clock /\ g[j] + Lockout <= lockedUntil
        BY <1>4, <1>7, <1>9
      <3>3. QED
        BY <1>1, <3>1, <3>2
    <2>3. ASSUME ~(clock + 1 < lockedUntil) PROVE Len(h) = 0
      <3>1. \A i \in 1..Len(g) : g[i] + Lockout <= clock + 1
        BY <1>1, <1>4, <1>7, <1>9, <2>3
      <3>2. Old(g, clock + 1) = 1..Len(g)
        BY <1>4, <3>1 DEF Old
      <3>3. n = Len(g)
        <4>1. PICK k \in Nat : k = Len(g)
          BY <1>4
        <4>2. Cardinality(1..k) = k
          BY FS_Interval
        <4>3. QED
          BY <3>2, <4>1, <4>2 DEF n
      <3>4. QED
        BY <1>3, <1>4, <3>3
    <2>4. QED
      BY <1>1, <1>4, <2>1, <2>2, <2>3 DEF GuessInv, Locked, h
  <1>10. QED
    BY <1>8, <1>9

\* GuessInv is inductive.
LEMMA GuessStep == Types /\ GuessInv /\ [Next]_vars => GuessInv'
  <1> SUFFICES ASSUME Types, GuessInv, [Next]_vars PROVE GuessInv'
    OBVIOUS
  <1> USE Constants
  <1>1. CASE WrongPin
    <2> DEFINE g == history.guesses
               h == history'.guesses
    <2>1. /\ clock \in 0..MaxClock /\ failures \in 0..(Attempts - 1) /\ lockedUntil \in Nat
          /\ g \in Seq(0..MaxClock) /\ h = Append(g, clock) /\ clock' = clock
          /\ ~(clock < lockedUntil)
      BY <1>1 DEF Types, AuthTypes, History, WrongPin, Locked
    <2>2. Len(g) \in Nat /\ DOMAIN g = 1..Len(g) /\ \A i \in 1..Len(g) : g[i] \in Nat
      BY <2>1, LenProperties, ElementOfSeq
    <2>3. /\ h \in Seq(0..MaxClock) /\ Len(h) = Len(g) + 1
          /\ \A i \in 1..Len(g) : h[i] = g[i]
          /\ h[Len(g) + 1] = clock
      BY <2>1, AppendProperties
    <2>4. DOMAIN h = 1..(Len(g) + 1)
      BY <2>3, LenProperties
    <2>5. Len(g) <= failures /\ \A i \in 1..Len(g) : g[i] <= clock
      BY <2>1, <2>2 DEF GuessInv, Locked
    <2> HIDE DEF g, h
    <2>6. \A i \in 1..(Len(g) + 1) : h[i] \in Nat /\ h[i] <= clock
      BY <2>1, <2>2, <2>3, <2>5
    <2>7. CASE failures + 1 >= Attempts
      <3>1. lockedUntil' = clock + Lockout
        BY <1>1, <2>7 DEF WrongPin, Locks, LockEnds
      <3>2. \A i \in 1..(Len(g) + 1) : h[i] + Lockout <= clock + Lockout
        BY <2>1, <2>6
      <3>3. clock < clock + Lockout
        BY <2>1
      <3>4. Len(h) <= Attempts
        BY <2>1, <2>2, <2>3, <2>5
      <3>5. QED
        BY <2>1, <2>4, <2>6, <3>1, <3>2, <3>3, <3>4 DEF GuessInv, Locked, h
    <2>8. CASE ~(failures + 1 >= Attempts)
      <3>1. failures' = failures + 1 /\ lockedUntil' = lockedUntil
        BY <1>1, <2>8 DEF WrongPin, Locks
      <3>2. Len(h) <= failures + 1 /\ Len(h) <= Attempts
        BY <2>1, <2>2, <2>3, <2>5, <2>8
      <3>3. QED
        BY <2>1, <2>4, <2>6, <3>1, <3>2 DEF GuessInv, Locked, h
    <2>9. QED
      BY <2>7, <2>8
  <1>2. ASSUME history'.guesses = <<>>, failures' \in Nat PROVE GuessInv'
    BY <1>2 DEF GuessInv
  <1>3. CASE PairStart
    BY <1>2, <1>3 DEF PairStart, Begun, Types, AuthTypes, History
  <1>4. CASE Restart
    BY <1>2, <1>4 DEF Restart, AuthForgets, Types, AuthTypes, History
  <1>5. CASE TimePasses
    BY <1>5, GuessTick
  <1>6. CASE UNCHANGED vars
    BY <1>6 DEF vars, auth, GuessInv, Locked
  <1>7. CASE Next /\ ~WrongPin /\ ~PairStart /\ ~TimePasses /\ ~Restart
    <2>1. UNCHANGED <<clock, failures, lockedUntil>> /\ history'.guesses = history.guesses
      BY <1>7, GuessFrame
    <2>2. QED
      BY <2>1 DEF GuessInv, Locked
  <1>8. QED
    BY <1>1, <1>3, <1>4, <1>5, <1>6, <1>7

\* No stretch of time as long as a lockout has more wrong PINs in it than the
\* lockout allows, whatever its length, the clock's and the number allowed.
THEOREM FewGuessesAlways == Spec => []FewGuesses
  <1>1. Init => GuessInv
    <2> SUFFICES ASSUME Init PROVE GuessInv
      OBVIOUS
    <2>1. history.guesses = <<>> /\ failures = 0
      BY DEF Init, AuthInit, Nothing
    <2>2. QED
      BY <2>1, Constants DEF GuessInv
  <1>2. GuessInv => FewGuesses
    BY DEF GuessInv, FewGuesses
  <1>3. QED
    BY TypesAlways, GuessStep, <1>1, <1>2, PTL DEF Spec

-----------------------------------------------------------------------------
(* Challenges, tokens and passkeys.                                        *)

\* Forgetting challenges, or touching none, keeps the invariant.
LEMMA AdmissionFrame ==
  ASSUME AdmissionInv, pairings' \subseteq pairings, logins' \subseteq logins, rows' = rows,
         history'.begun = history.begun, history'.minted = history.minted,
         history'.barred = history.barred
  PROVE  AdmissionInv'
  <1>1. FlowInv'
    BY DEF AdmissionInv, FlowInv
  <1>2. Admission'
    BY DEF AdmissionInv, Admission, OneUse, InTime, Minted, RevokedStaysOut
  <1>3. QED
    BY <1>1, <1>2 DEF AdmissionInv

\* A challenge that is handed out is new: to the pairings, the logins, the tokens
\* and the passkeys there are.
LEMMA AdmissionBegin ==
  ASSUME Types, AdmissionInv, NEW ttl,
         \/ pairings' = Begin(pairings, ttl) /\ logins' = logins
         \/ logins' = Begin(logins, ttl) /\ pairings' = pairings,
         history'.begun = history.begun + 1, history'.minted = history.minted,
         history'.barred = history.barred, rows' = rows
  PROVE  AdmissionInv'
  <1> DEFINE new == [id |-> history.begun + 1, at |-> clock]
             pool == pairings \cup logins
             minted == history.minted
  <1>1. /\ history.begun \in Nat /\ new.id = history.begun + 1
        /\ \A e \in pool : e.id \in Nat /\ e.id <= history.begun
        /\ \A i \in DOMAIN minted : minted[i].id \in Nat /\ minted[i].id <= history.begun
        /\ \A r \in rows : r.key \in Nat /\ r.key <= history.begun
    <2>1. /\ history.begun \in Nat /\ \A e \in pool : e.id \in Nat
          /\ \A r \in rows : r.key \in Nat
          /\ minted \in Seq(Admitted)
      BY DEF Types, AuthTypes, Flow, Row, Ids, History
    <2>2. \A i \in DOMAIN minted : minted[i] \in Admitted
      BY <2>1, LenProperties, ElementOfSeq
    <2>3. QED
      BY <2>1, <2>2 DEF AdmissionInv, FlowInv, Admitted, Ids
  <1>2. pairings' \cup logins' \subseteq pool \cup {new}
    BY DEF Begin, Pruned
  <1>3. pairings' \cap logins' = {}
    <2>1. new \notin pool
      BY <1>1
    <2>2. pairings \cap logins = {}
      BY DEF AdmissionInv, FlowInv
    <2>3. QED
      BY <2>1, <2>2 DEF Begin, Pruned
  <1> HIDE DEF new, pool, minted
  <1>4. history'.minted = minted
    BY DEF minted
  <1>5. /\ \A e, f \in pool : e.id = f.id => e = f
        /\ \A i \in DOMAIN minted : \A e \in pool : minted[i].id # e.id
        /\ \A r \in rows : \A e \in pool : r.key # e.id
        /\ \A r, s \in rows : r.key = s.key => r = s
        /\ \A b \in history.barred : b.after <= Len(minted) /\ \E r \in rows : r.key = b.key /\ r.revoked
    BY DEF AdmissionInv, FlowInv, pool, minted
  <1>6. \A e \in pool \cup {new} : e.id <= history.begun + 1
    BY <1>1
  <1>7. \A e, f \in pool \cup {new} : e.id = f.id => e = f
    BY <1>1, <1>5
  <1>8. \A i \in DOMAIN minted : minted[i].id <= history.begun + 1
    BY <1>1
  <1>9. \A i \in DOMAIN minted : \A e \in pool \cup {new} : minted[i].id # e.id
    BY <1>1, <1>5
  <1>10. \A r \in rows : r.key <= history.begun + 1 /\ \A e \in pool \cup {new} : r.key # e.id
    BY <1>1, <1>5
  <1>11. FlowInv'
    BY <1>2, <1>3, <1>4, <1>5, <1>6, <1>7, <1>8, <1>9, <1>10 DEF FlowInv
  <1>12. Admission'
    BY DEF AdmissionInv, Admission, OneUse, InTime, Minted, RevokedStaysOut
  <1>13. QED
    BY <1>11, <1>12 DEF AdmissionInv

\* A token is minted for a challenge that is taken away, in its time, and for a
\* passkey that no revocation has named.
LEMMA AdmissionMint ==
  ASSUME Types, AdmissionInv, NEW e \in pairings \cup logins, NEW key, Mint(e, key),
         pairings' \subseteq pairings, logins' \subseteq logins,
         e \notin pairings' \cup logins',
         rows' = rows \/ (key = e.id /\ rows' = rows \cup {[key |-> key, revoked |-> FALSE]}),
         key = e.id => clock - e.at <= PairingTtl,
         key # e.id => clock - e.at <= LoginTtl,
         \A b \in history.barred : b.key # key
  PROVE  AdmissionInv'
  <1> DEFINE m == history.minted
             h == history'.minted
             new == [id |-> e.id, key |-> key, age |-> clock - e.at]
             pool == pairings \cup logins
             pool2 == pairings' \cup logins'
  <1>1. /\ m \in Seq(Admitted) /\ h = Append(m, new)
        /\ history'.begun = history.begun /\ history'.barred = history.barred
        /\ \A b \in history.barred : b.after \in Nat
    BY DEF Types, AuthTypes, History, Mint, Bar
  <1>2. /\ Len(m) \in Nat /\ DOMAIN m = 1..Len(m) /\ DOMAIN h = 1..(Len(m) + 1)
        /\ Len(h) = Len(m) + 1 /\ h[Len(m) + 1] = new /\ \A i \in 1..Len(m) : h[i] = m[i]
    <2>1. m \in Seq(Admitted \cup {new})
      BY <1>1, SeqMonotonic
    <2>2. h \in Seq(Admitted \cup {new})
      BY <1>1, <2>1, AppendProperties
    <2>3. QED
      BY <1>1, <2>1, <2>2, AppendProperties, LenProperties
  <1>3. new.id = e.id /\ new.key = key /\ new.age = clock - e.at
    OBVIOUS
  <1>4. /\ e \in pool /\ pool2 \subseteq pool /\ e \notin pool2
        /\ \A f \in pool : f.id <= history.begun
        /\ \A f, g \in pool : f.id = g.id => f = g
        /\ \A i \in 1..Len(m) : m[i].id <= history.begun
        /\ \A i \in 1..Len(m) : \A f \in pool : m[i].id # f.id
        /\ \A r \in rows : r.key <= history.begun /\ \A f \in pool : r.key # f.id
        /\ \A r, s \in rows : r.key = s.key => r = s
        /\ \A b \in history.barred : b.after <= Len(m) /\ \E r \in rows : r.key = b.key /\ r.revoked
    BY <1>2 DEF AdmissionInv, FlowInv
  <1>5. pairings' \cap logins' = {}
    BY DEF AdmissionInv, FlowInv
  <1>6. \A i \in 1..(Len(m) + 1) : i \in 1..Len(m) \/ i = Len(m) + 1
    BY <1>2
  <1>7. Admission'
    <2>1. OneUse'
      <3>1. \A i, j \in 1..Len(m) : m[i].id = m[j].id => i = j
        BY <1>2 DEF AdmissionInv, Admission, OneUse
      <3> HIDE DEF m, h, new, pool, pool2
      <3>2. \A i, j \in 1..(Len(m) + 1) : h[i].id = h[j].id => i = j
        BY <1>2, <1>3, <1>4, <1>6, <3>1
      <3>3. QED
        BY <1>2, <3>2 DEF OneUse, h
    <2>2. InTime'
      <3>1. \A i \in 1..Len(m) : m[i].age <= IF m[i].id = m[i].key THEN PairingTtl ELSE LoginTtl
        BY <1>2 DEF AdmissionInv, Admission, InTime, Minted
      <3>2. new.age <= IF new.id = new.key THEN PairingTtl ELSE LoginTtl
        BY <1>3
      <3> HIDE DEF m, h, new, pool, pool2
      <3>3. \A i \in 1..(Len(m) + 1) : h[i].age <= IF h[i].id = h[i].key THEN PairingTtl ELSE LoginTtl
        BY <1>2, <1>6, <3>1, <3>2
      <3>4. QED
        BY <1>2, <3>3 DEF InTime, Minted, h
    <2>3. RevokedStaysOut'
      <3>1. \A b \in history.barred : \A i \in 1..Len(m) : i > b.after => m[i].key # b.key
        BY <1>2 DEF AdmissionInv, Admission, RevokedStaysOut
      <3> HIDE DEF m, h, new, pool, pool2
      <3>2. \A b \in history.barred : \A i \in 1..(Len(m) + 1) : i > b.after => h[i].key # b.key
        BY <1>2, <1>3, <1>6, <3>1
      <3>3. QED
        BY <1>1, <1>2, <3>2 DEF RevokedStaysOut, h
    <2>4. QED
      BY <2>1, <2>2, <2>3 DEF Admission
  <1>8. FlowInv'
    <2> DEFINE row == [key |-> e.id, revoked |-> FALSE]
    <2>1. row.key = e.id /\ rows \subseteq rows' /\ rows' \subseteq rows \cup {row}
      OBVIOUS
    <2> HIDE DEF m, h, new, pool, pool2, row
    <2>2. \A f \in pool2 : f.id # e.id /\ f \in pool
      BY <1>4
    <2>3. \A r \in rows' : r.key <= history.begun /\ \A f \in pool2 : r.key # f.id
      BY <1>4, <2>1, <2>2
    <2>4. \A r, s \in rows' : r.key = s.key => r = s
      BY <1>4, <2>1
    <2>5. \A i \in 1..(Len(m) + 1) : h[i].id <= history.begun /\ \A f \in pool2 : h[i].id # f.id
      BY <1>2, <1>3, <1>4, <1>6, <2>2
    <2>6. \A b \in history.barred : b.after <= Len(h) /\ \E r \in rows' : r.key = b.key /\ r.revoked
      <3>1. \A b \in history.barred : b.after <= Len(m) + 1
        BY <1>1, <1>2, <1>4
      <3>2. QED
        BY <1>2, <1>4, <2>1, <3>1
    <2>7. \A f \in pool2 : f.id <= history.begun
      BY <1>4
    <2>8. \A f, g \in pool2 : f.id = g.id => f = g
      BY <1>4
    <2>9. QED
      BY <1>1, <1>2, <1>5, <2>3, <2>4, <2>5, <2>6, <2>7, <2>8 DEF FlowInv, h, pool2
  <1>9. QED
    BY <1>7, <1>8 DEF AdmissionInv

\* A revocation bars the passkey's one row from the tokens to come.
LEMMA AdmissionRevoke ==
  ASSUME Types, AdmissionInv, NEW r \in rows, Revoke(r)
  PROVE  AdmissionInv'
  <1> DEFINE m == history.minted
             new == [key |-> r.key, after |-> Len(m)]
             row == [r EXCEPT !.revoked = TRUE]
  <1>1. /\ history'.begun = history.begun /\ history'.minted = m
        /\ history'.barred = history.barred \cup {new}
        /\ rows' = (rows \ {r}) \cup {row}
        /\ pairings' = pairings /\ logins' = logins
    BY DEF Types, AuthTypes, History, Revoke
  <1>2. row.key = r.key /\ row.revoked /\ new.key = r.key /\ new.after = Len(m)
    BY DEF Types, AuthTypes, Row
  <1>3. Len(m) \in Nat /\ DOMAIN m = 1..Len(m)
    BY LenProperties DEF Types, AuthTypes, History
  <1>4. FlowInv
    BY DEF AdmissionInv
  <1> HIDE DEF m, new, row
  <1>5. FlowInv'
    <2>1. \A s \in rows' : \E t \in rows : s.key = t.key
      BY <1>1, <1>2
    <2>2. \A s, t \in rows' : s.key = t.key => s = t
      BY <1>1, <1>2, <1>4 DEF FlowInv
    <2>3. \A b \in history'.barred :
            b.after <= Len(m) /\ \E s \in rows' : s.key = b.key /\ s.revoked
      <3>1. \A b \in history.barred : b.after <= Len(m) /\ \E s \in rows : s.key = b.key /\ s.revoked
        BY <1>4 DEF FlowInv, m
      <3>2. ~r.revoked /\ row \in rows' /\ \A s \in rows : s # r => s \in rows'
        BY <1>1 DEF Revoke
      <3>3. Len(m) <= Len(m)
        BY <1>3
      <3>4. QED
        BY <1>1, <1>2, <3>1, <3>2, <3>3
    <2>4. QED
      BY <1>1, <1>4, <2>1, <2>2, <2>3 DEF FlowInv, m
  <1>6. Admission'
    <2>1. \A b \in history'.barred : \A i \in 1..Len(m) : i > b.after => m[i].key # b.key
      <3>1. \A b \in history.barred : \A i \in 1..Len(m) : i > b.after => m[i].key # b.key
        BY <1>3 DEF AdmissionInv, Admission, RevokedStaysOut, m
      <3>2. \A i \in 1..Len(m) : ~(i > new.after)
        BY <1>2, <1>3
      <3>3. QED
        BY <1>1, <3>1, <3>2
    <2>2. RevokedStaysOut'
      BY <1>1, <1>3, <2>1 DEF RevokedStaysOut
    <2>3. OneUse' /\ InTime'
      BY <1>1 DEF AdmissionInv, Admission, OneUse, InTime, Minted, m
    <2>4. QED
      BY <2>2, <2>3 DEF Admission
  <1>7. QED
    BY <1>5, <1>6 DEF AdmissionInv

\* AdmissionInv is inductive.
LEMMA AdmissionStep == Types /\ AdmissionInv /\ [Next]_vars => AdmissionInv'
  <1> SUFFICES ASSUME Types, AdmissionInv, [Next]_vars PROVE AdmissionInv'
    OBVIOUS
  <1>0. /\ history \in History /\ FlowInv
        /\ PairingTtl \in Nat /\ LoginTtl \in Nat /\ clock \in Int
        /\ \A e \in pairings \cup logins : e.at \in Int
    BY Constants DEF Types, AuthTypes, AdmissionInv, Flow
  <1>1. CASE WrongPin
    BY <1>0, <1>1, AdmissionFrame DEF WrongPin, History
  <1>2. CASE PairStart
    BY <1>0, <1>2, AdmissionBegin DEF PairStart, Begun, History
  <1>3. ASSUME NEW e \in pairings, PairFinish(e) PROVE AdmissionInv'
    <2>1. clock - e.at <= PairingTtl
      BY <1>0, <1>3 DEF PairFinish, Expired
    <2>2. \A b \in history.barred : b.key # e.id
      BY <1>0 DEF FlowInv
    <2>3. e \notin pairings' \cup logins' /\ pairings' \subseteq pairings /\ logins' = logins
      BY <1>0, <1>3 DEF PairFinish, Pop, FlowInv
    <2>4. Mint(e, e.id) /\ rows' = rows \cup {[key |-> e.id, revoked |-> FALSE]}
      BY <1>3 DEF PairFinish
    <2>5. QED
      BY <2>1, <2>2, <2>3, <2>4, AdmissionMint
  <1>4. ASSUME NEW e \in pairings, PairRefused(e) PROVE AdmissionInv'
    BY <1>4, AdmissionFrame DEF PairRefused, Pop
  <1>5. CASE LoginStart
    BY <1>0, <1>5, AdmissionBegin DEF LoginStart, Begun, History
  <1>6. ASSUME NEW e \in logins, NEW r \in rows, LoginFinish(e, r.key) PROVE AdmissionInv'
    <2>1. clock - e.at <= LoginTtl
      BY <1>0, <1>6 DEF LoginFinish, Expired
    <2>2. r.key # e.id
      BY <1>0 DEF FlowInv
    <2>3. \A b \in history.barred : b.key # r.key
      <3>1. PICK s \in rows : s.key = r.key /\ ~s.revoked
        BY <1>6 DEF LoginFinish, Passkey
      <3>2. QED
        BY <1>0, <3>1 DEF FlowInv
    <2>4. e \notin pairings' \cup logins' /\ logins' \subseteq logins /\ pairings' = pairings
      BY <1>0, <1>6 DEF LoginFinish, Pop, FlowInv
    <2>5. Mint(e, r.key) /\ rows' = rows
      BY <1>6 DEF LoginFinish
    <2>6. QED
      BY <2>1, <2>2, <2>3, <2>4, <2>5, AdmissionMint
  <1>7. ASSUME NEW e \in logins, LoginRefused(e) PROVE AdmissionInv'
    BY <1>7, AdmissionFrame DEF LoginRefused, Pop
  <1>8. ASSUME NEW r \in rows, Revoke(r) PROVE AdmissionInv'
    BY <1>8, AdmissionRevoke
  <1>9. CASE TimePasses
    BY <1>0, <1>9, AdmissionFrame DEF TimePasses, History
  <1>10. CASE Restart
    BY <1>0, <1>10, AdmissionFrame DEF Restart, AuthForgets, History
  <1>11. CASE UNCHANGED auth
    BY <1>11, AdmissionFrame DEF auth
  <1>12. QED
    BY <1>1, <1>2, <1>3, <1>4, <1>5, <1>6, <1>7, <1>8, <1>9, <1>10, <1>11
    DEF Next, vars, Ask, AskForbidden, CardArrives, Notified, Tap, Fade, Resolve, Answered, TimesUp, TimedOut,
        HookGivesUp, SecondsPass, Break, Detach, Hello

\* A challenge admits once and in time, and no passkey after its revocation: for
\* any number of devices, flows in flight, revocations and restarts.
THEOREM AdmissionAlways == Spec => []Admission
  <1>1. Init => AdmissionInv
    <2> SUFFICES ASSUME Init PROVE AdmissionInv
      OBVIOUS
    <2>1. /\ pairings = {} /\ logins = {} /\ history.minted = <<>> /\ history.barred = {}
          /\ rows = {} \/ (rows = {[key |-> 1, revoked |-> FALSE]} /\ history.begun = 1)
      BY DEF Init, AuthInit, Nothing
    <2>2. FlowInv
      <3>1. \A i \in DOMAIN history.minted : FALSE
        BY <2>1
      <3>2. \A r \in rows : r.key = 1 /\ history.begun = 1
        BY <2>1
      <3>3. \A r \in rows : r.key <= history.begun
        BY <3>2
      <3>4. \A r, s \in rows : r = s
        BY <2>1
      <3>5. QED
        BY <2>1, <3>1, <3>3, <3>4 DEF FlowInv
    <2>3. Admission
      BY <2>1 DEF Admission, OneUse, InTime, Minted, RevokedStaysOut
    <2>4. QED
      BY <2>2, <2>3 DEF AdmissionInv
  <1>2. AdmissionInv => Admission
    BY DEF AdmissionInv
  <1>3. QED
    BY TypesAlways, AdmissionStep, <1>1, <1>2, PTL DEF Spec

=============================================================================
