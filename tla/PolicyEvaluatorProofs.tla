----------------------- MODULE PolicyEvaluatorProofs -----------------------
(***************************************************************************)
(* Theorems about PolicyEvaluator, for every policy, every set of requests  *)
(* and every bound: what the rules promise of the log holds at every        *)
(* moment, whatever restarts fell in between.                               *)
(***************************************************************************)
EXTENDS Backtest, RulesProofs

(***************************************************************************)
(* The inductive invariant: both memories are images of the log, complete   *)
(* for as far as each of them reaches back.                                 *)
(***************************************************************************)
Record(e, hydrated) == Spend(e.id, e.ts, e.req, hydrated)

Numbered ==
  /\ IsFiniteSet(log)
  /\ \A e \in log : e.id <= Cardinality(log) /\ e.ts <= now
  /\ \A d, e \in log : d.id = e.id => d = e
  /\ \A id \in session : id <= Cardinality(log)

\* A record of the memory is of an entry, and there is none twice.
FromLog ==
  /\ \A s \in spends : \E e \in log : s = Record(e, s.hydrated)
  /\ \A s, t \in spends : s.id = t.id => s = t

\* What a window can look back at is in the memory.
Remembered ==
  /\ \A e \in log : StillCounts(e.ts, now) => \E h \in BOOLEAN : Record(e, h) \in spends
  /\ \A e \in log : e.id \in session => Record(e, FALSE) \in spends
  /\ seen = {e.req.recipient : e \in log}

\* The context a payment under way was evaluated in, as the evaluator's memory still is.
AskedOf(u) == [req |-> u.req, now |-> u.asked, spends |-> spends, seen |-> seen]

\* It passed the policy then.
Vetted ==
  \A u \in underway :
    /\ u.asked <= now /\ Cardinality(log) < MaxPayments
    /\ ~EvaluatePolicy(AskedOf(u)).critical
    /\ u.human = EvaluatePolicy(AskedOf(u)).escalate

MemoryInv == TypeOK /\ Numbered /\ FromLog /\ Remembered /\ Vetted

\* A record says what its entry does.
LEMMA RecordFields ==
  \A e, h : /\ Record(e, h).id = e.id /\ Record(e, h).ts = e.ts
            /\ Record(e, h).amount = e.req.amount /\ Record(e, h).token = e.req.token
            /\ Record(e, h).hydrated = h
BY DEF Record, Spend

\* Entries are of requests with a positive amount, dated and numbered.
LEMMA EntryFields ==
  ASSUME TypeOK, NEW e \in log
  PROVE  /\ e.id \in 1..MaxPayments /\ e.ts \in 1..MaxTime /\ e.req \in Requests
         /\ e.id \in Nat /\ e.ts \in Nat
         /\ e.human \in BOOLEAN /\ e.req.amount \in Nat
BY EvaluatorAssumption DEF TypeOK, Entry

\* A payment under way is of a request, and was evaluated at some time before.
LEMMA UnderwayFields ==
  ASSUME MemoryInv, NEW u \in underway
  PROVE  /\ u.req \in Requests /\ u.req.amount \in Nat
         /\ u.asked \in 1..MaxTime /\ u.asked \in Nat /\ u.asked <= now
         /\ u.human \in BOOLEAN
BY EvaluatorAssumption DEF MemoryInv, TypeOK, Question, Vetted

\* The entry of a payment, and all that it changes.
NewEntry(u) == [id |-> Cardinality(log) + 1, ts |-> now, asked |-> u.asked,
                req |-> u.req, human |-> u.human]

\* observe() and the log get the payment, with the verdict it passed on.
LEMMA SettleSteps ==
  ASSUME MemoryInv, NEW u \in underway, Settle(u)
  PROVE  /\ ~EvaluatePolicy(AskedOf(u)).critical
         /\ NewEntry(u).id = Cardinality(log) + 1 /\ NewEntry(u).ts = now
         /\ NewEntry(u).asked = u.asked /\ NewEntry(u).req = u.req
         /\ NewEntry(u).human = EvaluatePolicy(AskedOf(u)).escalate
         /\ Cardinality(log) < MaxPayments
         /\ underway' = {}
         /\ spends' = spends \cup {Record(NewEntry(u), FALSE)}
         /\ seen' = seen \cup {u.req.recipient}
         /\ log' = log \cup {NewEntry(u)}
         /\ session' = session \cup {NewEntry(u).id}
         /\ now' = now
BY DEF Settle, NewEntry, Record, MemoryInv, Vetted

\* The numbers of the entries count up.
LEMMA NextNumber ==
  ASSUME MemoryInv, NEW u \in underway, Settle(u)
  PROVE  /\ Cardinality(log) \in Nat
         /\ NewEntry(u) \notin log
         /\ \A e \in log : e.id < NewEntry(u).id
         /\ \A id \in session : id < NewEntry(u).id
         /\ IsFiniteSet(log') /\ Cardinality(log') = Cardinality(log) + 1
<1> DEFINE new == NewEntry(u)
<1>1. new.id = Cardinality(log) + 1 /\ log' = log \cup {new}
  BY SettleSteps
<1> HIDE DEF new
<1>2. IsFiniteSet(log) /\ Cardinality(log) \in Nat
  BY FS_CardinalityType DEF MemoryInv, Numbered
<1>3. \A e \in log : e.id < new.id
  <2>1. \A e \in log : e.id \in Nat /\ e.id <= Cardinality(log)
    BY EntryFields DEF MemoryInv, Numbered
  <2> QED
    BY <1>1, <1>2, <2>1
<1>4. \A id \in session : id < new.id
  <2>1. \A id \in session : id \in Nat /\ id <= Cardinality(log)
    BY EvaluatorAssumption DEF MemoryInv, Numbered, TypeOK
  <2> QED
    BY <1>1, <1>2, <2>1
<1>5. new \notin log
  <2>1. ~(new.id < new.id)
    BY <1>1, <1>2
  <2> QED
    BY <1>3, <2>1
<1>6. IsFiniteSet(log') /\ Cardinality(log') = Cardinality(log) + 1
  BY <1>1, <1>2, <1>5, FS_AddElement
<1> QED
  BY <1>2, <1>3, <1>4, <1>5, <1>6 DEF new

(***************************************************************************)
(* A payment joins the log and both memories at once; a restart rebuilds    *)
(* them from the log; the clock only lets records fall out of the windows;  *)
(* while a payment is under way the memory is as it was evaluated with.     *)
(***************************************************************************)
LEMMA MemoryKept == MemoryInv /\ [Next]_vars => MemoryInv'
<1> SUFFICES ASSUME MemoryInv, [Next]_vars
             PROVE  MemoryInv'
  OBVIOUS
<1>1. ASSUME NEW u \in underway, Settle(u)
      PROVE  MemoryInv'
  <2> DEFINE new == NewEntry(u)
             r == Record(new, FALSE)
  <2>1. /\ new.id = Cardinality(log) + 1 /\ new.ts = now /\ new.req = u.req
        /\ Cardinality(log) < MaxPayments
        /\ underway' = {}
        /\ spends' = spends \cup {r}
        /\ seen' = seen \cup {u.req.recipient}
        /\ log' = log \cup {new}
        /\ session' = session \cup {new.id}
        /\ now' = now
    BY <1>1, SettleSteps
  <2>2. /\ Cardinality(log) \in Nat
        /\ \A e \in log : e.id < new.id
        /\ \A id \in session : id < new.id
        /\ IsFiniteSet(log') /\ Cardinality(log') = Cardinality(log) + 1
    BY <1>1, NextNumber
  <2>3. new \in Entry
    <3>1. u.req \in Requests /\ u.asked \in 1..MaxTime /\ u.human \in BOOLEAN
      BY <1>1, UnderwayFields
    <3>2. Cardinality(log) + 1 \in 1..MaxPayments /\ now \in 1..MaxTime
      BY <2>1, <2>2, EvaluatorAssumption DEF MemoryInv, TypeOK
    <3> QED
      BY <3>1, <3>2 DEF NewEntry, Entry
  <2>4. r.id = new.id /\ r.ts = now /\ r.hydrated = FALSE
    BY <2>1, RecordFields
  <2> HIDE DEF new, r
  <2>5. new.id \in 1..MaxPayments /\ now \in 1..MaxTime
    BY <2>3, <2>1 DEF Entry, MemoryInv, TypeOK
  <2>6. TypeOK'
    <3>1. \A s \in spends' : s.id \in 1..MaxPayments /\ s.ts \in 1..MaxTime /\ s.hydrated \in BOOLEAN
      BY <2>1, <2>4, <2>5 DEF MemoryInv, TypeOK
    <3>2. seen' \subseteq {q.recipient : q \in Requests}
      BY <1>1, <2>1, UnderwayFields DEF MemoryInv, TypeOK
    <3> QED
      BY <2>1, <2>3, <2>5, <3>1, <3>2 DEF MemoryInv, TypeOK
  <2>7. Numbered'
    <3>1. \A e \in log' : e.id <= Cardinality(log') /\ e.ts <= now'
      <4>1. \A e \in log : e.id \in Nat /\ e.id <= Cardinality(log) /\ e.ts <= now
        BY EntryFields DEF MemoryInv, Numbered
      <4>2. now \in Nat
        BY <2>5
      <4> QED
        BY <2>1, <2>2, <4>1, <4>2
    <3>2. \A d, e \in log' : d.id = e.id => d = e
      <4>1. \A e \in log : e.id # new.id
        BY <2>2, <2>5, EntryFields DEF MemoryInv
      <4> QED
        BY <2>1, <4>1 DEF MemoryInv, Numbered
    <3>3. \A id \in session' : id <= Cardinality(log')
      BY <2>1, <2>2 DEF MemoryInv, Numbered, TypeOK
    <3> QED
      BY <2>2, <3>1, <3>2, <3>3 DEF Numbered
  <2>8. FromLog'
    <3>1. \A s \in spends' : \E e \in log' : s = Record(e, s.hydrated)
      BY <2>1, <2>4 DEF MemoryInv, FromLog, r
    <3>2. \A s \in spends : s.id # r.id
      <4> TAKE s \in spends
      <4>1. PICK e \in log : s = Record(e, s.hydrated)
        BY DEF MemoryInv, FromLog
      <4>2. s.id = e.id
        BY <4>1, RecordFields
      <4> QED
        BY <4>2, <2>2, <2>4, <2>5, EntryFields DEF MemoryInv
    <3> QED
      BY <2>1, <3>1, <3>2 DEF MemoryInv, FromLog
  <2>9. Remembered'
    <3>1. \A e \in log' : StillCounts(e.ts, now') => \E h \in BOOLEAN : Record(e, h) \in spends'
      BY <2>1 DEF MemoryInv, Remembered, r
    <3>2. \A e \in log' : e.id \in session' => Record(e, FALSE) \in spends'
      <4>1. \A e \in log : e.id # new.id
        BY <2>2, <2>5, EntryFields DEF MemoryInv
      <4> QED
        BY <2>1, <4>1 DEF MemoryInv, Remembered, r
    <3>3. seen' = {e.req.recipient : e \in log'}
      BY <2>1 DEF MemoryInv, Remembered
    <3> QED
      BY <3>1, <3>2, <3>3 DEF Remembered
  <2>10. Vetted'
    BY <2>1 DEF Vetted
  <2> QED
    BY <2>6, <2>7, <2>8, <2>9, <2>10 DEF MemoryInv
<1>2. CASE Restart
  <2> DEFINE back == {x \in log : StillCounts(x.ts, now)}
  <2>1. /\ spends' = {Record(e, TRUE) : e \in back}
        /\ seen' = {e.req.recipient : e \in log}
        /\ session' = {} /\ now' = now /\ log' = log /\ underway' = {}
    BY <1>2 DEF Restart, Record
  <2>2. TypeOK'
    <3>1. \A s \in spends' : s.id \in 1..MaxPayments /\ s.ts \in 1..MaxTime /\ s.hydrated \in BOOLEAN
      <4> TAKE s \in spends'
      <4>1. PICK e \in log : s = Record(e, TRUE)
        BY <2>1
      <4>2. s.id = e.id /\ s.ts = e.ts /\ s.hydrated = TRUE
        BY <4>1, RecordFields
      <4> QED
        BY <4>2, EntryFields DEF MemoryInv
    <3>2. seen' \subseteq {q.recipient : q \in Requests}
      BY <2>1, EntryFields DEF MemoryInv
    <3> QED
      BY <2>1, <3>1, <3>2 DEF MemoryInv, TypeOK
  <2>3. Numbered'
    BY <2>1 DEF MemoryInv, Numbered
  <2>4. FromLog'
    <3>1. \A s \in spends' : \E e \in log' : s = Record(e, s.hydrated)
      BY <2>1, RecordFields
    <3>2. \A s, t \in spends' : s.id = t.id => s = t
      <4> TAKE s, t \in spends'
      <4>1. PICK d \in log : s = Record(d, TRUE)
        BY <2>1
      <4>2. PICK e \in log : t = Record(e, TRUE)
        BY <2>1
      <4>3. s.id = d.id /\ t.id = e.id
        BY <4>1, <4>2, RecordFields
      <4> QED
        BY <4>1, <4>2, <4>3 DEF MemoryInv, Numbered
    <3> QED
      BY <3>1, <3>2 DEF FromLog
  <2>5. Remembered'
    BY <2>1 DEF Remembered
  <2>6. Vetted'
    BY <2>1 DEF Vetted
  <2> QED
    BY <2>2, <2>3, <2>4, <2>5, <2>6 DEF MemoryInv
<1>3. CASE Tick
  <2>1. now' = now + 1 /\ now < MaxTime /\ UNCHANGED <<underway, spends, seen, log, session>>
    BY <1>3 DEF Tick
  <2>2. now \in 1..MaxTime /\ now' \in 1..MaxTime
    BY <2>1, EvaluatorAssumption DEF MemoryInv, TypeOK
  <2>3. TypeOK'
    BY <2>1, <2>2 DEF MemoryInv, TypeOK
  <2>4. Numbered'
    BY <2>1, <2>2, EntryFields DEF MemoryInv, Numbered
  <2>5. FromLog'
    BY <2>1 DEF MemoryInv, FromLog
  <2>6. Remembered'
    <3>1. \A e \in log : StillCounts(e.ts, now') => StillCounts(e.ts, now)
      BY <2>1, <2>2, EntryFields, DayLenType DEF MemoryInv, StillCounts
    <3> QED
      BY <2>1, <3>1 DEF MemoryInv, Remembered
  <2>7. Vetted'
    <3>1. \A u \in underway : AskedOf(u)' = AskedOf(u) /\ u.asked <= now'
      BY <2>1, <2>2, UnderwayFields DEF AskedOf
    <3> QED
      BY <2>1, <3>1 DEF MemoryInv, Vetted, EvaluatePolicy
  <2> QED
    BY <2>3, <2>4, <2>5, <2>6, <2>7 DEF MemoryInv
<1>4. ASSUME NEW req \in Requests, Evaluate(req)
      PROVE  MemoryInv'
  <2> DEFINE u == [req |-> req, asked |-> now, human |-> EvaluatePolicy(Context(req)).escalate]
  <2>1. /\ Cardinality(log) < MaxPayments /\ ~EvaluatePolicy(Context(req)).critical
        /\ underway' = {u} /\ UNCHANGED <<now, spends, seen, log, session>>
    BY <1>4 DEF Evaluate
  <2>2. u \in Question /\ now \in Nat
    <3>1. EvaluatePolicy(Context(req)).escalate \in BOOLEAN
      BY DEF EvaluatePolicy, EvaluateRules
    <3> QED
      BY <3>1, EvaluatorAssumption DEF Question, MemoryInv, TypeOK
  <2>3. TypeOK'
    BY <2>1, <2>2 DEF MemoryInv, TypeOK
  <2>4. Numbered' /\ FromLog' /\ Remembered'
    BY <2>1 DEF MemoryInv, Numbered, FromLog, Remembered
  <2>5. ASSUME NEW v \in underway'
        PROVE  /\ v.asked = now /\ AskedOf(v)' = Context(req)
               /\ v.human = EvaluatePolicy(Context(req)).escalate
    BY <2>1 DEF AskedOf, Context
  <2> HIDE DEF u
  <2>6. Vetted'
    <3>1. ASSUME NEW v \in underway'
          PROVE  EvaluatePolicy(AskedOf(v))' = EvaluatePolicy(Context(req))
      BY <2>5 DEF EvaluatePolicy
    <3>2. ASSUME NEW v \in underway'
          PROVE  /\ v.asked <= now' /\ Cardinality(log') < MaxPayments
                 /\ ~EvaluatePolicy(AskedOf(v))'.critical
                 /\ v.human = EvaluatePolicy(AskedOf(v))'.escalate
      BY <2>1, <2>2, <2>5, <3>1
    <3> QED
      BY <3>2 DEF Vetted
  <2> QED
    BY <2>3, <2>4, <2>6 DEF MemoryInv
<1>5. CASE GiveUp
  <2>1. underway' = {} /\ UNCHANGED <<now, spends, seen, log, session>>
    BY <1>5 DEF GiveUp
  <2> QED
    BY <2>1 DEF MemoryInv, TypeOK, Numbered, FromLog, Remembered, Vetted
<1>6. CASE UNCHANGED vars
  <2>1. \A u : AskedOf(u)' = AskedOf(u)
    BY <1>6 DEF vars, AskedOf
  <2> QED
    BY <1>6, <2>1 DEF vars, MemoryInv, TypeOK, Numbered, FromLog, Remembered, Vetted, EvaluatePolicy
<1> QED
  BY <1>1, <1>2, <1>3, <1>4, <1>5, <1>6 DEF Next

\* At first nothing was paid and nothing is remembered.
LEMMA MemoryInit == Init => MemoryInv
BY FS_EmptySet, EvaluatorAssumption DEF Init, MemoryInv, TypeOK, Numbered, FromLog, Remembered, Vetted

(***************************************************************************)
(* The evaluator never forgets a payment its windows still reach back to,   *)
(* nor invents one or counts it twice, restarts or not.                     *)
(***************************************************************************)
THEOREM MemoryRight == Spec => []MemoryInv
BY MemoryInit, MemoryKept, PTL DEF Spec

(***************************************************************************)
(* Records and entries are numbered within the bound and dated.             *)
(***************************************************************************)
THEOREM EvaluatorTypeCorrect == Spec => []TypeOK
<1>1. MemoryInv => TypeOK
  BY DEF MemoryInv
<1> QED
  BY <1>1, MemoryRight, PTL

(***************************************************************************)
(* What an action leaves of the log: one payment more, or all of it.        *)
(***************************************************************************)
LEMMA LogSteps ==
  ASSUME [Next]_vars
  PROVE  \/ \E u \in underway : Settle(u)
         \/ log' = log
BY DEF Next, Evaluate, GiveUp, Restart, Tick, vars

\* The clock only counts up, and a step that logs nothing begins no session.
LEMMA KeepsTime ==
  ASSUME MemoryInv, [Next]_vars, log' = log
  PROVE  (now' = now \/ now' = now + 1) /\ session' \in SUBSET session
<1>1. CASE \E u \in underway : Settle(u)
  <2>1. PICK u \in underway : Settle(u)
    BY <1>1
  <2> QED
    BY <2>1, SettleSteps, NextNumber
<1> QED
  BY <1>1 DEF Next, Evaluate, GiveUp, Restart, Tick, vars

(***************************************************************************)
(* A counterparty rule that asks a human does so for whoever is not in the  *)
(* log, which is exactly whom the evaluator does not know; a later payment  *)
(* is never the first one to a recipient the log has.                       *)
(***************************************************************************)
THEOREM NewPayeesSeen == Spec => []NewPayeesMeetAHuman
<1> DEFINE Asks == \E r \in Policy : r.type = "counterparty" /\ r.flagNewRecipients /\ r.action = "escalate"
           Met == \A e \in log : FirstTo(e) => e.human
<1>1. ASSUME Asks, Met, MemoryInv, NEW u \in underway, Settle(u)
      PROVE  Met'
  <2> DEFINE new == NewEntry(u)
  <2>1. /\ new.req = u.req /\ new.human = EvaluatePolicy(AskedOf(u)).escalate
        /\ log' = log \cup {new} /\ seen = {e.req.recipient : e \in log}
    BY <1>1, SettleSteps DEF MemoryInv, Remembered
  <2>2. \A e \in log : e.id \in Nat /\ e.id < new.id
    BY <1>1, NextNumber, EntryFields DEF MemoryInv
  <2>3. new.id \in Nat
    <3>1. new.id = Cardinality(log) + 1 /\ Cardinality(log) \in Nat
      BY <1>1, NextNumber, SettleSteps
    <3> QED
      BY <3>1
  <2>4. u.req.recipient \notin seen => new.human
    <3> SUFFICES ASSUME u.req.recipient \notin seen
                 PROVE  EvaluatePolicy(AskedOf(u)).escalate
      BY <2>1
    <3> DEFINE ctx == AskedOf(u)
    <3>1. PICK rule \in Policy : rule.type = "counterparty" /\ rule.flagNewRecipients /\ rule.action = "escalate"
      BY <1>1
    <3>2. Dispatch(rule, ctx) = CheckCounterparty(rule, ctx)
      BY <3>1 DEF Dispatch
    <3>3. CheckCounterparty(rule, ctx) = FailAs("escalate")
      <4>1. ctx.req = u.req /\ ctx.seen = seen
        BY DEF AskedOf
      <4> HIDE DEF ctx
      <4> QED
        BY <3>1, <4>1 DEF CheckCounterparty
    <3>4. FailAs("escalate").escalate
      BY DEF FailAs
    <3> HIDE DEF ctx
    <3>5. EvaluateRules(Policy, ctx).escalate
      BY <3>2, <3>3, <3>4, NoRuleSkipped
    <3> QED
      BY <3>5 DEF EvaluatePolicy, ctx
  <2> HIDE DEF new
  <2>5. ASSUME NEW e \in log', FirstTo(e)'
        PROVE  e.human
    <3>1. CASE e = new
      <4>1. \A d \in log : d.req.recipient # u.req.recipient
        <5> TAKE d \in log
        <5>1. d.id \in Nat /\ d.id < new.id /\ d \in log'
          BY <2>1, <2>2
        <5>2. d.req.recipient = e.req.recipient => e.id <= d.id
          BY <2>5, <5>1 DEF FirstTo
        <5> QED
          BY <2>1, <2>3, <3>1, <5>1, <5>2
      <4>2. u.req.recipient \notin seen
        BY <2>1, <4>1
      <4> QED
        BY <2>4, <3>1, <4>2
    <3>2. CASE e \in log
      <4>1. FirstTo(e)
        BY <2>1, <2>5 DEF FirstTo
      <4> QED
        BY <1>1, <3>2, <4>1
    <3> QED
      BY <2>1, <2>5, <3>1, <3>2
  <2> QED
    BY <2>5
<1>2. Init => NewPayeesMeetAHuman
  BY DEF Init, NewPayeesMeetAHuman
<1>3. NewPayeesMeetAHuman /\ MemoryInv /\ [Next]_vars => NewPayeesMeetAHuman'
  <2> SUFFICES ASSUME NewPayeesMeetAHuman, MemoryInv, [Next]_vars, Asks
               PROVE  Met'
    BY DEF NewPayeesMeetAHuman
  <2>1. Met
    BY DEF NewPayeesMeetAHuman
  <2>2. CASE log' = log
    BY <2>1, <2>2 DEF FirstTo
  <2>3. CASE \E u \in underway : Settle(u)
    <3>1. PICK u \in underway : Settle(u)
      BY <2>3
    <3> HIDE DEF Asks, Met
    <3> QED
      BY <1>1, <2>1, <3>1
  <2> QED
    BY <2>2, <2>3, LogSteps
<1> QED
  BY <1>2, <1>3, MemoryRight, PTL DEF Spec

(***************************************************************************)
(* An hour of the clock, and the one a day later, wrapped into a day.       *)
(***************************************************************************)
LEMMA HourWraps ==
  ASSUME NEW n \in Nat \ {0}, NEW h \in 0..(n - 1)
  PROVE  h % n = h /\ (h + n) % n = h
OBVIOUS

\* Every moment falls in one of the hours of the day.
LEMMA HourType ==
  ASSUME NEW t \in Nat
  PROVE  (t \div HourLen) % HoursPerDay \in 0..(HoursPerDay - 1)
<1>1. t \div HourLen \in Nat
  <2>1. \A a \in Nat, b \in Nat \ {0} : a \div b \in Nat
    OBVIOUS
  <2> QED
    BY <2>1, PolicyAssumption
<1>2. \A a \in Nat, b \in Nat \ {0} : a % b \in 0..(b - 1)
  OBVIOUS
<1> QED
  BY <1>1, <1>2, PolicyAssumption

(***************************************************************************)
(* The hours a rule accepts are the ones counted up from its start.         *)
(***************************************************************************)
LEMMA HoursAccepted ==
  ASSUME NEW rule, WellFormed(rule), rule.type = "time-window",
         NEW hour \in 0..(HoursPerDay - 1),
         \/ rule.start = rule.end
         \/ rule.start < rule.end /\ rule.start <= hour /\ hour < rule.end
         \/ rule.start > rule.end /\ (rule.start <= hour \/ hour < rule.end)
  PROVE  hour \in HoursOf(rule)
<1>1. HoursPerDay \in Nat \ {0} /\ rule.start \in 0..HoursPerDay /\ rule.end \in 0..HoursPerDay
  BY PolicyAssumption DEF WellFormed
<1>2. hour % HoursPerDay = hour /\ (hour + HoursPerDay) % HoursPerDay = hour
  BY <1>1, HourWraps
<1> DEFINE len == rule.end - rule.start + (IF rule.start < rule.end THEN 0 ELSE HoursPerDay)
           k == IF rule.start <= hour THEN hour - rule.start ELSE hour + HoursPerDay - rule.start
<1>3. CASE rule.start = rule.end
  BY <1>3 DEF HoursOf
<1>4. CASE rule.start # rule.end
  <2>1. k \in 0..(len - 1)
    BY <1>1, <1>4
  <2>2. rule.start + k = hour \/ rule.start + k = hour + HoursPerDay
    BY <1>1
  <2> HIDE DEF k
  <2>3. (rule.start + k) % HoursPerDay = hour
    BY <1>2, <2>2
  <2> QED
    BY <1>4, <2>1, <2>3 DEF HoursOf
<1> QED
  BY <1>3, <1>4

(***************************************************************************)
(* A payment evaluated outside the hours of a rule that does more than warn *)
(* is blocked or put to a human, and an entry once logged stays as it is.   *)
(***************************************************************************)
THEOREM HoursKept == Spec => []HoursRespected
<1> DEFINE Fits(rule, e) == ~e.human => (e.asked \div HourLen) % HoursPerDay \in HoursOf(rule)
<1>1. ASSUME MemoryInv, NEW u \in underway, Settle(u),
             NEW rule \in Policy, rule.type = "time-window", rule.action # "warn"
      PROVE  Fits(rule, NewEntry(u))
  <2> DEFINE new == NewEntry(u)
             ctx == AskedOf(u)
             hour == (u.asked \div HourLen) % HoursPerDay
  <2>1. /\ new.asked = u.asked /\ new.human = EvaluatePolicy(ctx).escalate
        /\ ~EvaluatePolicy(ctx).critical
    BY <1>1, SettleSteps
  <2>2. Dispatch(rule, ctx) = CheckTimeWindow(rule, ctx) /\ ctx.now = u.asked
    BY <1>1 DEF Dispatch, AskedOf
  <2>3. WellFormed(rule) /\ rule.action \in {"block", "escalate"}
    BY <1>1, PolicyAssumption DEF WellFormed
  <2>4. hour \in 0..(HoursPerDay - 1)
    <3>1. u.asked \in Nat
      BY <1>1, UnderwayFields
    <3> QED
      BY <3>1, HourType
  <2> HIDE DEF new, ctx
  <2>5. ASSUME ~new.human PROVE hour \in HoursOf(rule)
    <3>1. /\ Dispatch(rule, ctx).severity # "critical"
          /\ ~Dispatch(rule, ctx).escalate
      BY <2>1, <2>5, NoRuleSkipped DEF EvaluatePolicy
    <3>2. CheckTimeWindow(rule, ctx) # FailAs(rule.action)
      <4>1. FailAs("block").severity = "critical" /\ FailAs("escalate").escalate
        BY DEF FailAs
      <4>2. CASE rule.action = "block"
        BY <2>2, <3>1, <4>1, <4>2
      <4>3. CASE rule.action = "escalate"
        BY <2>2, <3>1, <4>1, <4>3
      <4> QED
        BY <2>3, <4>2, <4>3
    <3>3. \/ rule.start = rule.end
          \/ rule.start < rule.end /\ rule.start <= hour /\ hour < rule.end
          \/ rule.start > rule.end /\ (rule.start <= hour \/ hour < rule.end)
      BY <2>2, <3>2 DEF CheckTimeWindow
    <3> HIDE DEF hour
    <3> QED
      BY <1>1, <2>3, <2>4, <3>3, HoursAccepted
  <2> QED
    BY <2>1, <2>5 DEF new
<1>2. Init => HoursRespected
  BY DEF Init, HoursRespected
<1>3. HoursRespected /\ MemoryInv /\ [Next]_vars => HoursRespected'
  <2> SUFFICES ASSUME HoursRespected, MemoryInv, [Next]_vars,
                      NEW rule \in Policy, rule.type = "time-window", rule.action # "warn",
                      NEW e \in log'
               PROVE  Fits(rule, e)
    BY DEF HoursRespected, HoursOf
  <2>1. e \in log => Fits(rule, e)
    BY DEF HoursRespected
  <2>2. CASE log' = log
    BY <2>1, <2>2
  <2>3. CASE \E u \in underway : Settle(u)
    <3>1. PICK u \in underway : Settle(u)
      BY <2>3
    <3>2. log' = log \cup {NewEntry(u)}
      BY <3>1, SettleSteps
    <3>3. Fits(rule, NewEntry(u))
      BY <1>1, <3>1
    <3> HIDE DEF Fits
    <3> QED
      BY <2>1, <3>2, <3>3
  <2> QED
    BY <2>2, <2>3, LogSteps
<1> QED
  BY <1>2, <1>3, MemoryRight, PTL DEF Spec

-----------------------------------------------------------------------------
(* What the log says was paid. *)

\* The records Paid adds up.
Paying(entries, token) == {Record(e, FALSE) : e \in {x \in entries : x.req.token = token}}

\* What was paid is the total of these.
LEMMA PaidIsTotal == \A entries, token : Paid(entries, token) = Total(Paying(entries, token))
BY DEF Paid, Paying, Record

(***************************************************************************)
(* The payments of a part of the log are finitely many amounts.             *)
(***************************************************************************)
LEMMA PayingAmounts ==
  ASSUME MemoryInv, NEW entries \in SUBSET log, NEW token
  PROVE  /\ IsFiniteSet(Paying(entries, token))
         /\ Amounts(Paying(entries, token))
         /\ \A x \in Paying(entries, token) : x.amount >= 0
         /\ Paid(entries, token) \in Int
<1> DEFINE chosen == {x \in entries : x.req.token = token}
           f == [e \in chosen |-> Record(e, FALSE)]
<1>1. IsFiniteSet(chosen)
  <2>1. IsFiniteSet(log) /\ chosen \in SUBSET log
    BY DEF MemoryInv, Numbered
  <2> QED
    BY <2>1, FS_Subset
<1>2. IsFiniteSet({f[e] : e \in chosen})
  <2>1. f = [e \in chosen |-> f[e]]
    OBVIOUS
  <2> HIDE DEF f, chosen
  <2> QED
    BY <1>1, <2>1, FiniteImage
<1>3. IsFiniteSet(Paying(entries, token))
  <2>1. {f[e] : e \in chosen} = Paying(entries, token)
    BY DEF Paying
  <2> QED
    BY <1>2, <2>1
<1>4. \A x \in Paying(entries, token) : x.amount \in Nat
  <2> TAKE x \in Paying(entries, token)
  <2>1. PICK e \in log : x = Record(e, FALSE)
    BY DEF Paying
  <2>2. Record(e, FALSE).amount = e.req.amount
    BY RecordFields
  <2> QED
    BY <2>1, <2>2, EntryFields DEF MemoryInv
<1>5. Amounts(Paying(entries, token)) /\ \A x \in Paying(entries, token) : x.amount >= 0
  BY <1>4 DEF Amounts
<1> QED
  BY <1>3, <1>5, TotalType, PaidIsTotal

(***************************************************************************)
(* A payment is counted once, with its amount, where its token is.          *)
(***************************************************************************)
LEMMA PaidAdds ==
  ASSUME MemoryInv, NEW entries \in SUBSET log, NEW token, NEW e, e \notin entries,
         \A d \in entries : d.id # e.id, e.req.amount \in Nat
  PROVE  Paid(entries \cup {e}, token)
           = Paid(entries, token) + (IF e.req.token = token THEN e.req.amount ELSE 0)
<1> DEFINE S == Paying(entries, token)
           more == entries \cup {e}
<1>1. IsFiniteSet(S) /\ Amounts(S) /\ Paid(entries, token) \in Int
  BY PayingAmounts
<1>2. CASE e.req.token = token
  <2>1. Paying(more, token) = S \cup {Record(e, FALSE)}
    BY <1>2 DEF Paying
  <2>2. Record(e, FALSE) \notin S
    <3> SUFFICES ASSUME Record(e, FALSE) \in S PROVE FALSE
      OBVIOUS
    <3>1. PICK d \in entries : Record(e, FALSE) = Record(d, FALSE)
      BY DEF Paying
    <3>2. Record(e, FALSE).id = e.id /\ Record(d, FALSE).id = d.id
      BY RecordFields
    <3> QED
      BY <3>1, <3>2
  <2>3. Record(e, FALSE).amount = e.req.amount
    BY RecordFields
  <2> DEFINE r == Record(e, FALSE)
  <2> HIDE DEF S, more, r
  <2>4. Total(S \cup {r}) = Total(S) + r.amount
    <3>1. r \notin S
      BY <2>2 DEF r
    <3>2. r.amount = e.req.amount
      BY <2>3 DEF r
    <3>3. r.amount \in Int
      BY <3>2
    <3> QED
      BY <1>1, <3>1, <3>3, TotalAdds
  <2>5. Paid(more, token) = Total(S) + e.req.amount
    BY <2>1, <2>3, <2>4, PaidIsTotal DEF r
  <2> QED
    BY <1>2, <2>5, PaidIsTotal DEF S, more
<1>3. CASE e.req.token # token
  <2>1. Paying(more, token) = S
    BY <1>3 DEF Paying
  <2>2. Paid(more, token) = Paid(entries, token)
    BY <2>1, PaidIsTotal
  <2> QED
    BY <1>1, <1>3, <2>2
<1> QED
  BY <1>2, <1>3

(***************************************************************************)
(* Payments that each have a record of their amount in a set of records     *)
(* are at most its total.                                                   *)
(***************************************************************************)
LEMMA PaidAtMost ==
  ASSUME MemoryInv, NEW entries \in SUBSET log, NEW token,
         NEW U, IsFiniteSet(U), Amounts(U), \A u \in U : u.amount >= 0,
         NEW f, \A e \in entries : e.req.token = token =>
                  f[e] \in U /\ f[e].id = e.id /\ f[e].amount = e.req.amount
  PROVE  Paid(entries, token) <= Total(U)
<1> DEFINE S == Paying(entries, token)
           Of(x) == CHOOSE e \in entries : e.req.token = token /\ x = Record(e, FALSE)
           g == [x \in S |-> f[Of(x)]]
<1>1. \A x \in S : Of(x) \in entries /\ Of(x).req.token = token /\ x = Record(Of(x), FALSE)
  BY DEF Paying
<1> HIDE DEF Of
<1>2. IsFiniteSet(S) /\ Amounts(S)
  BY PayingAmounts
<1>3. \A x \in S : g[x] \in U /\ g[x].id = Of(x).id /\ g[x].amount = x.amount
  <2> TAKE x \in S
  <2>1. f[Of(x)] \in U /\ f[Of(x)].id = Of(x).id /\ f[Of(x)].amount = Of(x).req.amount
    BY <1>1
  <2>2. Of(x).req.amount = x.amount
    <3>1. Record(Of(x), FALSE).amount = Of(x).req.amount
      BY RecordFields
    <3> QED
      BY <1>1, <3>1
  <2> QED
    BY <2>1, <2>2
<1> HIDE DEF S
<1>4. \A x, y \in S : g[x] = g[y] => x = y
  <2> TAKE x, y \in S
  <2>1. g[x] = g[y] => Of(x).id = Of(y).id
    BY <1>3
  <2>2. Of(x).id = Of(y).id => Of(x) = Of(y)
    BY <1>1 DEF MemoryInv, Numbered
  <2> QED
    BY <1>1, <2>1, <2>2
<1> HIDE DEF g
<1>5. Total(S) <= Total(U)
  BY <1>2, <1>3, <1>4, TotalAtMost
<1> QED
  BY <1>5, PaidIsTotal DEF S

\* Of fewer payments no more is paid.
LEMMA PaidLess ==
  ASSUME MemoryInv, NEW entries \in SUBSET log, NEW fewer \in SUBSET entries, NEW token
  PROVE  Paid(fewer, token) <= Paid(entries, token)
<1> DEFINE f == [e \in log |-> Record(e, FALSE)]
           U == Paying(entries, token)
<1>1. IsFiniteSet(U) /\ Amounts(U) /\ \A u \in U : u.amount >= 0
  BY PayingAmounts
<1>2. \A e \in fewer : e.req.token = token => f[e] \in U
  BY DEF Paying
<1>3. \A e \in fewer : f[e].id = e.id /\ f[e].amount = e.req.amount
  BY RecordFields
<1> HIDE DEF f, U
<1>4. Paid(fewer, token) <= Total(U)
  BY <1>1, <1>2, <1>3, PaidAtMost
<1> QED
  BY <1>4, PaidIsTotal DEF U

\* Without payments nothing is paid.
LEMMA NothingPaid == \A token : Paid({}, token) = 0
<1> TAKE token
<1>1. Paying({}, token) = {}
  BY DEF Paying
<1>2. Total(Paying({}, token)) = 0
  BY <1>1, TotalOfNone, Zenon
<1> QED
  BY <1>2, PaidIsTotal

-----------------------------------------------------------------------------
(* The evaluator's own records. *)

\* The records are finitely many, of amounts.
LEMMA SpendsAmounts ==
  ASSUME MemoryInv, NEW S \in SUBSET spends
  PROVE  IsFiniteSet(S) /\ Amounts(S) /\ \A s \in S : s.amount >= 0
<1> DEFINE f == [s \in spends |-> s.id]
<1>1. IsFiniteSet(1..MaxPayments)
  BY FS_Interval, EvaluatorAssumption
<1>2. f \in Injection(spends, 1..MaxPayments)
  BY DEF MemoryInv, FromLog, TypeOK, Injection, IsInjective
<1> HIDE DEF f
<1>3. IsFiniteSet(spends)
  BY <1>1, <1>2, FS_Injection
<1>4. \A s \in spends : s.amount \in Nat
  <2> TAKE s \in spends
  <2>1. PICK e \in log : s = Record(e, s.hydrated)
    BY DEF MemoryInv, FromLog
  <2>2. s.amount = e.req.amount
    BY <2>1, RecordFields
  <2> QED
    BY <2>2, EntryFields DEF MemoryInv
<1> QED
  BY <1>3, <1>4, FS_Subset DEF Amounts

\* The record of an entry, where there is one.
Memory == [e \in log |-> Record(e, CHOOSE h \in BOOLEAN : Record(e, h) \in spends)]

\* It says what the entry does, and in this run that it was not replayed.
LEMMA MemoryOf ==
  ASSUME MemoryInv, NEW e \in log, StillCounts(e.ts, now) \/ e.id \in session
  PROVE  /\ Memory[e] \in spends
         /\ Memory[e].id = e.id /\ Memory[e].ts = e.ts
         /\ Memory[e].amount = e.req.amount /\ Memory[e].token = e.req.token
         /\ e.id \in session => Memory[e].hydrated = FALSE
<1> DEFINE h == CHOOSE g \in BOOLEAN : Record(e, g) \in spends
<1>1. \E g \in BOOLEAN : Record(e, g) \in spends
  BY DEF MemoryInv, Remembered
<1>2. Record(e, h) \in spends
  BY <1>1
<1> HIDE DEF h
<1>3. Memory[e] = Record(e, h)
  BY DEF Memory, h
<1>4. /\ Memory[e].id = e.id /\ Memory[e].ts = e.ts /\ Memory[e].hydrated = h
      /\ Memory[e].amount = e.req.amount /\ Memory[e].token = e.req.token
  BY <1>3, RecordFields
<1>5. ASSUME e.id \in session PROVE h = FALSE
  <2>1. Record(e, FALSE) \in spends
    BY <1>5 DEF MemoryInv, Remembered
  <2>2. /\ Record(e, FALSE).id = e.id /\ Record(e, FALSE).hydrated = FALSE
        /\ Record(e, h).id = e.id /\ Record(e, h).hydrated = h
    BY RecordFields
  <2>3. Record(e, FALSE) = Record(e, h)
    BY <1>2, <2>1, <2>2 DEF MemoryInv, FromLog
  <2> QED
    BY <2>2, <2>3
<1> QED
  BY <1>2, <1>3, <1>4, <1>5

\* The entries a window is about.
Covered(window) ==
  CASE window = "hour"    -> Within(HourLen, now)
    [] window = "day"     -> Within(DayLen, now)
    [] window = "session" -> {e \in log : e.id \in session}

(***************************************************************************)
(* Every window counts at least what the log says was paid in it, and so    *)
(* did the same window when a payment under way was evaluated.              *)
(***************************************************************************)
LEMMA WindowsCover ==
  ASSUME MemoryInv, NEW window \in {"hour", "day", "session"}, NEW token,
         NEW at \in Nat, at <= now
  PROVE  /\ Paid(Covered(window), token) <= WindowedSpend(spends, window, token, at)
         /\ WindowedSpend(spends, window, token, at) \in Int
         /\ Paid(Covered(window), token) \in Int
<1> DEFINE U == {s \in InSpendWindow(spends, window, at) : s.token = token}
           S == Covered(window)
<1>1. U \in SUBSET spends
  BY DEF InSpendWindow
<1>2. S \in SUBSET log
  BY DEF Covered, Within
<1>3. now \in Nat /\ HourLen \in Nat /\ DayLen \in Nat /\ HourLen <= DayLen
  BY DayLenType, EvaluatorAssumption DEF MemoryInv, TypeOK
<1>4. ASSUME NEW e \in S, e.req.token = token
      PROVE  Memory[e] \in U /\ Memory[e].id = e.id /\ Memory[e].amount = e.req.amount
  <2>1. e \in log /\ e.ts \in Nat
    BY <1>2, <1>4, EntryFields DEF MemoryInv
  <2>2. StillCounts(e.ts, now) \/ e.id \in session
    BY <1>3, <1>4, <2>1 DEF Covered, Within, StillCounts
  <2>3. /\ Memory[e] \in spends
        /\ Memory[e].id = e.id /\ Memory[e].ts = e.ts
        /\ Memory[e].amount = e.req.amount /\ Memory[e].token = e.req.token
        /\ e.id \in session => Memory[e].hydrated = FALSE
    BY <2>1, <2>2, MemoryOf
  <2>4. Memory[e] \in InSpendWindow(spends, window, at)
    BY <1>3, <1>4, <2>1, <2>3 DEF Covered, Within, InSpendWindow
  <2> QED
    BY <1>4, <2>3, <2>4
<1>5. WindowedSpend(spends, window, token, at) = Total(U)
  BY DEF WindowedSpend
<1> HIDE DEF S, U
<1>6. IsFiniteSet(U) /\ Amounts(U) /\ \A u \in U : u.amount >= 0
  BY <1>1, SpendsAmounts
<1>7. Paid(S, token) <= Total(U)
  BY <1>2, <1>4, <1>6, PaidAtMost
<1>8. Paid(S, token) \in Int /\ Total(U) \in Int
  BY <1>2, <1>6, PayingAmounts, TotalType
<1> QED
  BY <1>5, <1>7, <1>8 DEF S

-----------------------------------------------------------------------------
(* Caps and rates. *)

\* What one cap promises.
CapKept(rule) ==
  IF rule.window = "transaction"
  THEN \A e \in log : e.req.token = rule.token => e.req.amount <= rule.maxAmount
  ELSE Paid(Covered(rule.window), rule.token) <= rule.maxAmount

Caps == {rule \in Policy : rule.type = "spend-cap"}

\* All the caps promise is what each one does.
LEMMA CapByCap == CapsHold <=> \A rule \in Caps : CapKept(rule)
<1>1. \A rule \in Caps : rule.window \in {"transaction", "session", "hour", "day"}
  BY PolicyAssumption DEF Caps, WellFormed
<1> QED
  BY <1>1 DEF CapsHold, CapsKept, Caps, CapKept, Covered

(***************************************************************************)
(* A payment joins each window as it ends, and is the only one to do so.    *)
(***************************************************************************)
LEMMA PaymentJoins ==
  ASSUME MemoryInv, NEW u \in underway, Settle(u), NEW window \in {"hour", "day", "session"}
  PROVE  Covered(window)' = Covered(window) \cup {NewEntry(u)}
<1> DEFINE new == NewEntry(u)
<1>1. /\ log' = log \cup {new} /\ session' = session \cup {new.id} /\ now' = now /\ new.ts = now
  BY SettleSteps
<1>2. \A e \in log : e.id \in Nat /\ e.id < new.id
  BY NextNumber, EntryFields DEF MemoryInv
<1>3. now \in Nat /\ HourLen \in Nat \ {0} /\ DayLen \in Nat \ {0}
  BY DayLenType, EvaluatorAssumption DEF MemoryInv, TypeOK
<1>4. new.id \in Nat
  <2>1. new.id = Cardinality(log) + 1 /\ Cardinality(log) \in Nat
    BY NextNumber, SettleSteps
  <2> QED
    BY <2>1
<1> HIDE DEF new
<1>5. CASE window = "hour"
  <2>1. Within(HourLen, now)' = Within(HourLen, now) \cup {new}
    BY <1>1, <1>3 DEF Within
  <2> QED
    BY <1>5, <2>1 DEF Covered, new
<1>6. CASE window = "day"
  <2>1. Within(DayLen, now)' = Within(DayLen, now) \cup {new}
    BY <1>1, <1>3 DEF Within, DayLen
  <2> QED
    BY <1>6, <2>1 DEF Covered, new
<1>7. CASE window = "session"
  <2>1. \A e \in log : e.id # new.id
    BY <1>2, <1>4
  <2>2. {e \in log : e.id \in session}' = {e \in log : e.id \in session} \cup {new}
    BY <1>1, <2>1
  <2> QED
    BY <1>7, <2>2 DEF Covered, new
<1> QED
  BY <1>5, <1>6, <1>7

(***************************************************************************)
(* No spend cap is ever exceeded.  The window the evaluator added up counted *)
(* all that the log still has there when the payment is made, so what it    *)
(* let pass fits; time and restarts only take payments out of a window.     *)
(***************************************************************************)
THEOREM CapsNeverExceeded == Spec => []CapsHold
<1>1. ASSUME MemoryInv, CapsHold, NEW u \in underway, Settle(u), NEW rule \in Caps
      PROVE  CapKept(rule)'
  <2> DEFINE new == NewEntry(u)
             ctx == AskedOf(u)
             req == u.req
             prior == WindowedSpend(spends, rule.window, rule.token, u.asked)
  <2>1. /\ ~EvaluateRules(Policy, ctx).critical
        /\ new.id = Cardinality(log) + 1 /\ new.req = req /\ log' = log \cup {new}
    BY <1>1, SettleSteps DEF EvaluatePolicy
  <2>2. req.amount \in Nat /\ rule \in Policy /\ rule.type = "spend-cap" /\ WellFormed(rule)
    BY <1>1, UnderwayFields, PolicyAssumption DEF Caps
  <2>3. ctx.req = req /\ ctx.now = u.asked /\ ctx.spends = spends
    BY DEF AskedOf
  <2> HIDE DEF new, ctx, prior, req
  <2>4. rule.token = req.token =>
          /\ rule.window = "transaction" => req.amount <= rule.maxAmount
          /\ rule.window # "transaction" /\ prior \in Int => prior + req.amount <= rule.maxAmount
    <3> SUFFICES ASSUME rule.token = req.token
                 PROVE  /\ rule.window = "transaction" => req.amount <= rule.maxAmount
                        /\ rule.window # "transaction" /\ prior \in Int => prior + req.amount <= rule.maxAmount
      OBVIOUS
    <3>1. ctx.req.amount \in Int /\ rule.token = ctx.req.token
      BY <2>2, <2>3
    <3>2. /\ rule.window = "transaction" => ctx.req.amount <= rule.maxAmount
          /\ rule.window # "transaction"
               /\ WindowedSpend(ctx.spends, rule.window, rule.token, ctx.now) \in Int
             => WindowedSpend(ctx.spends, rule.window, rule.token, ctx.now) + ctx.req.amount
                  <= rule.maxAmount
      BY <2>1, <2>2, <3>1, CapChecked
    <3> QED
      BY <2>3, <3>2 DEF prior
  <2>5. CapKept(rule)
    BY <1>1, CapByCap
  <2>6. CASE rule.window = "transaction"
    BY <2>1, <2>4, <2>5, <2>6 DEF CapKept
  <2>7. CASE rule.window # "transaction"
    <3> DEFINE old == Covered(rule.window)
    <3>1. rule.window \in {"hour", "day", "session"} /\ rule.maxAmount \in Nat
      BY <2>2, <2>7 DEF WellFormed
    <3>2. Covered(rule.window)' = old \cup {new}
      BY <1>1, <3>1, PaymentJoins DEF new
    <3>3. /\ Paid(old, rule.token) <= prior /\ prior \in Int /\ Paid(old, rule.token) \in Int
      BY <1>1, <3>1, UnderwayFields, WindowsCover DEF prior
    <3>4. old \in SUBSET log
      BY <3>1 DEF Covered, Within
    <3>5. Paid(old, rule.token) <= rule.maxAmount
      BY <2>5, <2>7 DEF CapKept
    <3> HIDE DEF old
    <3>6. Paid(old \cup {new}, rule.token)
            = Paid(old, rule.token) + (IF new.req.token = rule.token THEN new.req.amount ELSE 0)
      <4>1. \A d \in log : d.id \in Nat /\ d.id < new.id
        BY <1>1, NextNumber, EntryFields DEF MemoryInv, new
      <4>2. new \notin old /\ \A d \in old : d.id # new.id
        <5>1. new.id \in Nat
          <6>1. Cardinality(log) \in Nat
            BY <1>1, NextNumber
          <6> QED
            BY <2>1, <6>1
        <5> QED
          BY <3>4, <4>1, <5>1
      <4> QED
        BY <1>1, <2>1, <2>2, <3>4, <4>2, PaidAdds
    <3>7. Paid(old \cup {new}, rule.token) <= rule.maxAmount
      <4>1. CASE rule.token = req.token
        BY <2>1, <2>2, <2>4, <2>7, <3>1, <3>3, <3>6, <4>1
      <4>2. CASE rule.token # req.token
        BY <2>1, <3>3, <3>5, <3>6, <4>2
      <4> QED
        BY <4>1, <4>2
    <3>8. (Paid(Covered(rule.window), rule.token) <= rule.maxAmount)'
      BY <3>2, <3>7 DEF Paid
    <3> QED
      BY <2>7, <3>8 DEF CapKept
  <2> QED
    BY <2>6, <2>7
<1>2. ASSUME MemoryInv, CapsHold, [Next]_vars, log' = log, NEW rule \in Caps
      PROVE  CapKept(rule)'
  <2>1. CapKept(rule)
    BY <1>2, CapByCap
  <2>2. log' = log
    BY <1>2
  <2>3. CASE rule.window = "transaction"
    BY <2>1, <2>2, <2>3 DEF CapKept
  <2>4. CASE rule.window # "transaction"
    <3> DEFINE old == Covered(rule.window)
               left == Covered(rule.window)'
    <3>1. rule.window \in {"hour", "day", "session"} /\ rule.maxAmount \in Nat
      BY <2>4, PolicyAssumption DEF Caps, WellFormed
    <3>2. old \in SUBSET log
      BY <3>1 DEF Covered, Within
    <3>3. left \in SUBSET old
      <4>1. now \in Nat /\ HourLen \in Nat /\ DayLen \in Nat
        BY <1>2, DayLenType, EvaluatorAssumption DEF MemoryInv, TypeOK
      <4>2. \A e \in log : e.ts \in Nat /\ e.ts <= now
        BY <1>2, EntryFields DEF MemoryInv, Numbered
      <4>3. (now' = now \/ now' = now + 1) /\ session' \in SUBSET session
        BY <1>2, KeepsTime
      <4>4. (HourLen' = HourLen) /\ (DayLen' = DayLen)
        BY DEF DayLen
      <4>5. /\ Within(HourLen, now)' \in SUBSET Within(HourLen, now)
            /\ Within(DayLen, now)' \in SUBSET Within(DayLen, now)
        <5>1. ASSUME NEW e \in log, NEW len \in Nat, now' - len < e.ts, e.ts <= now'
              PROVE  now - len < e.ts /\ e.ts <= now
          BY <4>1, <4>2, <4>3, <5>1
        <5> QED
          BY <2>2, <4>1, <4>4, <5>1 DEF Within
      <4>6. CASE rule.window = "hour"
        BY <4>5, <4>6 DEF Covered
      <4>7. CASE rule.window = "day"
        BY <4>5, <4>7 DEF Covered
      <4>8. CASE rule.window = "session"
        BY <2>2, <4>3, <4>8 DEF Covered
      <4> QED
        BY <3>1, <4>6, <4>7, <4>8
    <3>4. Paid(old, rule.token) <= rule.maxAmount
      BY <2>1, <2>4 DEF CapKept
    <3>5. left \in SUBSET log
      BY <3>2, <3>3
    <3> HIDE DEF old, left
    <3>6. Paid(left, rule.token) <= rule.maxAmount
      <4>1. Paid(left, rule.token) \in Int /\ Paid(old, rule.token) \in Int
        BY <1>2, <3>2, <3>5, PayingAmounts
      <4>2. Paid(left, rule.token) <= Paid(old, rule.token)
        BY <1>2, <3>2, <3>3, PaidLess
      <4> QED
        BY <3>1, <3>4, <4>1, <4>2
    <3>7. (Paid(Covered(rule.window), rule.token) <= rule.maxAmount)'
      BY <3>6 DEF left, Paid
    <3> QED
      BY <2>4, <3>7 DEF CapKept
  <2> QED
    BY <2>3, <2>4
<1>3. Init => CapsHold
  <2> SUFFICES ASSUME Init, NEW rule \in Caps PROVE CapKept(rule)
    BY CapByCap
  <2>1. log = {}
    BY DEF Init
  <2>2. CASE rule.window = "transaction"
    BY <2>1, <2>2 DEF CapKept
  <2>3. CASE rule.window # "transaction"
    <3>1. rule.window \in {"hour", "day", "session"} /\ rule.maxAmount \in Nat
      BY <2>3, PolicyAssumption DEF Caps, WellFormed
    <3>2. Covered(rule.window) = {}
      BY <2>1, <3>1 DEF Covered, Within
    <3>3. Paid(Covered(rule.window), rule.token) = 0
      BY <3>2, NothingPaid, Zenon
    <3> QED
      BY <2>3, <3>1, <3>3 DEF CapKept
  <2> QED
    BY <2>2, <2>3
<1>4. CapsHold /\ MemoryInv /\ [Next]_vars => CapsHold'
  <2> SUFFICES ASSUME CapsHold, MemoryInv, [Next]_vars
               PROVE  CapsHold'
    OBVIOUS
  <2>1. \A rule \in Caps : CapKept(rule)'
    BY <1>1, <1>2, LogSteps
  <2>2. (CapsHold <=> \A rule \in Caps : CapKept(rule))'
    BY CapByCap, PTL
  <2>3. Caps' = Caps
    BY DEF Caps
  <2> QED
    BY <2>1, <2>2, <2>3
<1> QED
  BY <1>3, <1>4, MemoryRight, PTL DEF Spec

(***************************************************************************)
(* Entries that each have a record of their number in a set of records are  *)
(* no more than these.                                                      *)
(***************************************************************************)
LEMMA CountAtMost ==
  ASSUME MemoryInv, NEW entries \in SUBSET log, NEW U, IsFiniteSet(U),
         NEW f, \A e \in entries : f[e] \in U /\ f[e].id = e.id
  PROVE  Cardinality(entries) <= Cardinality(U)
<1> DEFINE g == [e \in entries |-> f[e]]
<1>1. g \in [entries -> U]
  OBVIOUS
<1>2. \A d, e \in entries : g[d] = g[e] => d = e
  <2> TAKE d, e \in entries
  <2>1. g[d] = g[e] => d.id = e.id
    OBVIOUS
  <2> QED
    BY <2>1 DEF MemoryInv, Numbered
<1> HIDE DEF g
<1>3. g \in Injection(entries, U)
  BY <1>1, <1>2 DEF Injection, IsInjective
<1> QED
  BY <1>3, FS_Injection

\* A part of the log is finite.
LEMMA EntriesFinite ==
  ASSUME MemoryInv, NEW entries \in SUBSET log
  PROVE  IsFiniteSet(entries) /\ Cardinality(entries) \in Nat
BY FS_Subset, FS_CardinalityType DEF MemoryInv, Numbered

(***************************************************************************)
(* A rate limit no longer than a day holds across restarts: a day is what   *)
(* hydrate() replays, so the evaluator counts all the log has there.        *)
(***************************************************************************)
THEOREM RatesNeverExceeded == Spec => []DailyRatesHold
<1> DEFINE Rates == {r \in Policy : r.type = "rate-limit" /\ r.windowLen <= DayLen}
           Recent(rule) == Within(rule.windowLen, now)
           Few(rule) == Cardinality(Recent(rule)) <= rule.maxPayments
<1>1. DailyRatesHold <=> \A rule \in Rates : Few(rule)
  BY DEF DailyRatesHold, RateKept
<1>2. \A rule \in Rates : rule.windowLen \in Nat /\ rule.maxPayments \in Nat /\ WellFormed(rule)
  BY PolicyAssumption DEF WellFormed
<1>3. ASSUME MemoryInv, NEW u \in underway, Settle(u), NEW rule \in Rates, Few(rule)
      PROVE  Few(rule)'
  <2> DEFINE new == NewEntry(u)
             ctx == AskedOf(u)
             old == Recent(rule)
             counted == {s \in ctx.spends : s.ts > ctx.now - rule.windowLen}
  <2>1. /\ ~EvaluateRules(Policy, ctx).critical
        /\ new.ts = now /\ log' = log \cup {new} /\ now' = now
    BY <1>3, SettleSteps DEF EvaluatePolicy
  <2>2. ctx.now = u.asked /\ ctx.spends = spends
    BY DEF AskedOf
  <2>3. /\ now \in Nat /\ DayLen \in Nat /\ rule.windowLen \in Nat /\ rule.maxPayments \in Nat
        /\ u.asked \in Nat /\ u.asked <= now
    BY <1>2, <1>3, DayLenType, EvaluatorAssumption, UnderwayFields DEF MemoryInv, TypeOK
  <2>4. old \in SUBSET log
    BY DEF Within
  <2>5. Recent(rule)' = IF rule.windowLen = 0 THEN {} ELSE old \cup {new}
    <3>1. Recent(rule)' = {e \in log' : now - rule.windowLen < e.ts /\ e.ts <= now}
      BY <2>1 DEF Within
    <3>2. old = {e \in log : now - rule.windowLen < e.ts /\ e.ts <= now}
      BY DEF Within
    <3> HIDE DEF old, new, Recent
    <3>3. CASE rule.windowLen = 0
      <4>1. \A e \in log' : e.ts \in Nat
        BY <1>3, <2>1, <2>3, EntryFields DEF MemoryInv
      <4> QED
        BY <2>3, <3>1, <3>3, <4>1
    <3>4. CASE rule.windowLen # 0
      BY <2>1, <2>3, <3>1, <3>2, <3>4
    <3> QED
      BY <3>3, <3>4
  <2>6. counted \in SUBSET spends
    BY <2>2
  <2>7. \A e \in old : Memory[e] \in counted /\ Memory[e].id = e.id
    <3> TAKE e \in old
    <3>1. e \in log /\ e.ts \in Nat /\ now - rule.windowLen < e.ts
      BY <1>3, <2>4, EntryFields DEF MemoryInv, Within
    <3>2. StillCounts(e.ts, now)
      BY <1>3, <2>3, <3>1 DEF StillCounts
    <3>3. Memory[e] \in spends /\ Memory[e].id = e.id /\ Memory[e].ts = e.ts
      BY <1>3, <3>1, <3>2, MemoryOf
    <3> QED
      BY <2>2, <2>3, <3>1, <3>3
  <2>8. WellFormed(rule) /\ rule \in Policy /\ rule.type = "rate-limit"
    BY <1>2, <1>3
  <2> HIDE DEF old, new, ctx, Recent
  <2>9. counted = {s \in ctx.spends : s.ts > ctx.now - rule.windowLen}
    OBVIOUS
  <2> HIDE DEF counted
  <2>10. IsFiniteSet(counted) /\ Cardinality(counted) \in Nat
    BY <1>3, <2>6, SpendsAmounts, FS_CardinalityType
  <2>11. Cardinality(counted) + 1 <= rule.maxPayments
    BY <2>1, <2>8, <2>9, <2>10, RateChecked
  <2>12. Cardinality(old) <= Cardinality(counted) /\ Cardinality(old) \in Nat /\ IsFiniteSet(old)
    BY <1>3, <2>4, <2>7, <2>10, CountAtMost, EntriesFinite
  <2>13. /\ Cardinality(old \cup {new}) <= Cardinality(old) + 1
         /\ Cardinality(old \cup {new}) \in Nat
    <3>1. /\ IsFiniteSet(old \cup {new})
          /\ Cardinality(old \cup {new}) = IF new \in old THEN Cardinality(old) ELSE Cardinality(old) + 1
      BY <2>12, FS_AddElement
    <3> QED
      BY <2>12, <3>1
  <2>14. Cardinality({}) = 0
    BY FS_EmptySet
  <2>15. CASE rule.windowLen = 0
    <3>1. Cardinality(Recent(rule)') = 0
      BY <2>5, <2>14, <2>15, Zenon
    <3> QED
      BY <2>3, <3>1
  <2>16. CASE rule.windowLen # 0
    <3>1. Recent(rule)' = old \cup {new}
      BY <2>5, <2>16
    <3>2. Cardinality(old \cup {new}) <= rule.maxPayments
      BY <2>3, <2>10, <2>11, <2>12, <2>13
    <3> QED
      BY <3>1, <3>2
  <2> QED
    BY <2>15, <2>16
<1>4. ASSUME MemoryInv, [Next]_vars, log' = log, NEW rule \in Rates, Few(rule)
      PROVE  Few(rule)'
  <2>1. log' = log /\ (now' = now \/ now' = now + 1)
    BY <1>4, KeepsTime
  <2>2. now \in Nat /\ rule.windowLen \in Nat /\ rule.maxPayments \in Nat
    BY <1>2, <1>4, EvaluatorAssumption DEF MemoryInv, TypeOK
  <2>3. Recent(rule) \in SUBSET log /\ Recent(rule)' \in SUBSET Recent(rule)
    <3>1. \A e \in log : e.ts \in Nat /\ e.ts <= now
      BY <1>4, EntryFields DEF MemoryInv, Numbered
    <3> QED
      BY <2>1, <2>2, <3>1 DEF Within
  <2> DEFINE old == Recent(rule)
             left == Recent(rule)'
  <2>4. Cardinality(old) <= rule.maxPayments
    BY <1>4
  <2>5. old \in SUBSET log /\ left \in SUBSET old /\ left \in SUBSET log
    BY <2>3
  <2> HIDE DEF old, left
  <2>6. Cardinality(left) <= Cardinality(old) /\ Cardinality(left) \in Nat /\ Cardinality(old) \in Nat
    BY <1>4, <2>5, EntriesFinite, FS_Subset
  <2>7. Cardinality(left) <= rule.maxPayments
    BY <2>2, <2>4, <2>6
  <2> QED
    BY <2>7 DEF left
<1>5. Init => DailyRatesHold
  <2> SUFFICES ASSUME Init, NEW rule \in Rates PROVE Few(rule)
    BY <1>1
  <2>1. Recent(rule) = {}
    BY DEF Init, Within
  <2>2. Cardinality(Recent(rule)) = 0
    BY <2>1, FS_EmptySet, Zenon
  <2> QED
    BY <1>2, <2>2
<1>6. DailyRatesHold /\ MemoryInv /\ [Next]_vars => DailyRatesHold'
  <2> SUFFICES ASSUME DailyRatesHold, MemoryInv, [Next]_vars
               PROVE  DailyRatesHold'
    OBVIOUS
  <2>1. ASSUME NEW rule \in Rates PROVE Few(rule)'
    <3>1. Few(rule)
      BY <1>1
    <3> HIDE DEF Rates, Few
    <3> QED
      BY <1>3, <1>4, <3>1, LogSteps
  <2> QED
    BY <2>1 DEF DailyRatesHold, RateKept, DayLen
<1> QED
  BY <1>5, <1>6, MemoryRight, PTL DEF Spec

-----------------------------------------------------------------------------
(* The backtest. *)

\* Of some entries one is the latest.
LEMMA LatestEntry ==
  ASSUME MemoryInv, NEW entries \in SUBSET log, entries # {}
  PROVE  \E e \in entries : \A d \in entries : d = e \/ d.id < e.id
<1> DEFINE ids == {e.id : e \in entries}
<1>1. \A e \in entries : e.id \in Nat /\ e.id \in 0..MaxPayments
  BY EntryFields, EvaluatorAssumption DEF MemoryInv
<1>2. ids \in SUBSET (0..MaxPayments) /\ ids # {} /\ MaxPayments \in Nat
  BY <1>1, EvaluatorAssumption
<1>3. \E t \in ids : \A u \in ids : u <= t
  <2> HIDE DEF ids
  <2> QED
    BY <1>2, HasLatest
<1>4. PICK e \in entries : \A d \in entries : d.id <= e.id
  BY <1>3
<1>5. \A d \in entries : d = e \/ d.id < e.id
  <2> TAKE d \in entries
  <2>1. d.id = e.id => d = e
    BY DEF MemoryInv, Numbered
  <2> QED
    BY <1>1, <1>4, <2>1
<1> QED
  BY <1>5

(***************************************************************************)
(* The context simulatePolicy() gives evaluate() for an entry: the payments *)
(* before it, all as if they were made now.                                 *)
(***************************************************************************)
Simulated(e) ==
  [req    |-> e.req,
   now    |-> now,
   spends |-> {Spend(d.id, ObservedAt(d), d.req, FALSE) : d \in Replayed(e)},
   seen   |-> {d.req.recipient : d \in Replayed(e)}]

\* The record the backtest makes of an entry.
Replay == [d \in log |-> Spend(d.id, now, d.req, FALSE)]

\* It is dated now, whenever the entry was made.
LEMMA ReplayFields ==
  ASSUME NEW d \in log
  PROVE  /\ Replay[d].id = d.id /\ Replay[d].ts = now
         /\ Replay[d].amount = d.req.amount /\ Replay[d].token = d.req.token
         /\ Replay[d].hydrated = FALSE
BY DEF Replay, Spend

\* They are finitely many records of amounts, one of each earlier entry.
LEMMA SimulatedSpends ==
  ASSUME MemoryInv, NEW e \in log
  PROVE  /\ Simulated(e).req = e.req /\ Simulated(e).now = now
         /\ Simulated(e).spends = {Replay[d] : d \in Replayed(e)}
         /\ \A S \in SUBSET Simulated(e).spends :
              IsFiniteSet(S) /\ Amounts(S) /\ \A s \in S : s.amount >= 0
<1> DEFINE f == [d \in Replayed(e) |-> Replay[d]]
           R == {Replay[d] : d \in Replayed(e)}
<1>1. Simulated(e).req = e.req /\ Simulated(e).now = now
  BY DEF Simulated
<1>2. Replayed(e) \in SUBSET log
  BY DEF Replayed
<1>3. Simulated(e).spends = R
  BY <1>2 DEF Simulated, Replay, ObservedAt
<1>4. IsFiniteSet(R)
  <2>1. IsFiniteSet(Replayed(e))
    BY <1>2, EntriesFinite
  <2>2. f = [d \in Replayed(e) |-> f[d]] /\ {f[d] : d \in Replayed(e)} = R
    OBVIOUS
  <2> HIDE DEF f
  <2>3. IsFiniteSet({f[d] : d \in Replayed(e)})
    BY <2>1, <2>2, FiniteImage
  <2> QED
    BY <2>2, <2>3
<1>5. \A s \in R : s.amount \in Nat
  BY <1>2, ReplayFields, EntryFields DEF MemoryInv
<1> HIDE DEF R
<1>6. \A S \in SUBSET R : IsFiniteSet(S) /\ Amounts(S) /\ \A s \in S : s.amount >= 0
  BY <1>4, <1>5, FS_Subset DEF Amounts
<1> QED
  BY <1>1, <1>3, <1>6 DEF R

\* A candidate that blocks nothing finds no entry critical.
LEMMA NothingCritical ==
  ASSUME NEW candidate, NewlyBlocked(candidate) = {}, NEW e \in log
  PROVE  ~EvaluateRules(candidate, Simulated(e)).critical
<1>1. RecordedVerdict(e) # "block"
  BY DEF RecordedVerdict
<1>2. SimulatedVerdict(candidate, e) # "block"
  BY <1>1 DEF NewlyBlocked
<1> QED
  BY <1>2 DEF SimulatedVerdict, Simulated

(***************************************************************************)
(* Whatever payments of the history are picked, a cap the backtest does not *)
(* find exceeded covers them all: at the latest of them the replay has      *)
(* counted each of the others.                                              *)
(***************************************************************************)
LEMMA CapOverAnyPart ==
  ASSUME MemoryInv, NEW candidate \in Candidates, NewlyBlocked(candidate) = {},
         NEW rule \in candidate, rule.type = "spend-cap", rule.window # "transaction",
         NEW entries \in SUBSET log
  PROVE  Paid(entries, rule.token) <= rule.maxAmount
<1> DEFINE token == rule.token
           S == {x \in entries : x.req.token = token}
<1>0. rule.maxAmount \in Nat /\ rule.window \in {"hour", "day", "session"} /\ WellFormed(rule)
  BY CandidatesAssumption DEF WellFormed
<1>1. Paid(entries, token) = Paid(S, token)
  <2>1. {x \in entries : x.req.token = token} = {x \in S : x.req.token = token}
    OBVIOUS
  <2> QED
    BY <2>1 DEF Paid
<1>2. CASE S = {}
  <2>1. Paid(S, token) = 0
    BY <1>2, NothingPaid, Zenon
  <2> QED
    BY <1>0, <1>1, <2>1
<1>3. CASE S # {}
  <2>1. S \in SUBSET log
    OBVIOUS
  <2> DEFINE IsNewest(e) == \A d \in S : d = e \/ d.id < e.id
  <2>2. PICK e \in S : IsNewest(e)
    <3> HIDE DEF S
    <3> QED
      BY <1>3, <2>1, LatestEntry
  <2> DEFINE rest == S \ {e}
             ctx == Simulated(e)
             U == {s \in InSpendWindow(ctx.spends, rule.window, now) : s.token = token}
  <2>3. e \in log /\ e.req.token = token /\ e.req.amount \in Nat /\ rest \in SUBSET log
    BY <2>1, <2>2, EntryFields DEF MemoryInv
  <2>4. \A d \in rest : d \in Replayed(e) /\ d.id # e.id /\ d.req.token = token
    <3> TAKE d \in rest
    <3>1. d.id < e.id /\ d.id \in Nat /\ e.id \in Nat /\ d \in log
      BY <2>1, <2>2, EntryFields DEF MemoryInv
    <3> QED
      BY <3>1 DEF Replayed
  <2>5. S = rest \cup {e}
    OBVIOUS
  <2> HIDE DEF S, rest
  <2>6. Paid(S, token) = Paid(rest, token) + e.req.amount
    <3>1. e \notin rest
      BY DEF rest
    <3>2. Paid(rest \cup {e}, token)
            = Paid(rest, token) + (IF e.req.token = token THEN e.req.amount ELSE 0)
      BY <2>3, <2>4, <3>1, PaidAdds
    <3> QED
      BY <2>3, <2>5, <3>2
  <2>7. ctx.req = e.req /\ ctx.now = now /\ ctx.spends = {Replay[d] : d \in Replayed(e)}
    BY <2>3, SimulatedSpends
  <2>8. U \in SUBSET ctx.spends
    BY <1>0 DEF InSpendWindow
  <2>9. IsFiniteSet(U) /\ Amounts(U) /\ \A u \in U : u.amount >= 0
    <3> HIDE DEF U
    <3> QED
      BY <2>3, <2>8, SimulatedSpends
  <2>10. \A d \in rest : Replay[d] \in U /\ Replay[d].id = d.id /\ Replay[d].amount = d.req.amount
    <3> TAKE d \in rest
    <3>1. d \in log /\ d \in Replayed(e) /\ d.req.token = token
      BY <2>3, <2>4
    <3>2. /\ Replay[d].id = d.id /\ Replay[d].ts = now
          /\ Replay[d].amount = d.req.amount /\ Replay[d].token = token
          /\ Replay[d].hydrated = FALSE
      BY <3>1, ReplayFields
    <3>3. Replay[d] \in ctx.spends
      BY <2>7, <3>1
    <3>4. now \in Nat /\ HourLen \in Nat \ {0} /\ DayLen \in Nat \ {0}
      BY DayLenType, EvaluatorAssumption DEF MemoryInv, TypeOK
    <3>5. now > now - HourLen /\ now > now - DayLen
      BY <3>4
    <3> HIDE DEF ctx
    <3>6. Replay[d] \in InSpendWindow(ctx.spends, rule.window, now)
      BY <1>0, <3>2, <3>3, <3>5 DEF InSpendWindow
    <3> QED
      BY <3>2, <3>6
  <2>11. WindowedSpend(ctx.spends, rule.window, token, ctx.now) = Total(U)
    BY <2>7 DEF WindowedSpend
  <2> HIDE DEF U, ctx
  <2>12. Paid(rest, token) <= Total(U) /\ Paid(rest, token) \in Int /\ Total(U) \in Int
    BY <2>3, <2>9, <2>10, PaidAtMost, PayingAmounts, TotalType
  <2>13. ~EvaluateRules(candidate, ctx).critical
    BY <2>3, NothingCritical DEF ctx
  <2>14. Total(U) + e.req.amount <= rule.maxAmount
    <3>1. ctx.req.amount \in Int /\ rule.token = ctx.req.token
      BY <2>3, <2>7
    <3>2. WindowedSpend(ctx.spends, rule.window, rule.token, ctx.now) \in Int
      BY <2>11, <2>12
    <3>3. WindowedSpend(ctx.spends, rule.window, rule.token, ctx.now) + ctx.req.amount <= rule.maxAmount
      BY <1>0, <2>13, <3>1, <3>2, CapChecked
    <3> QED
      BY <2>7, <2>11, <3>3
  <2> QED
    BY <1>0, <1>1, <2>3, <2>6, <2>12, <2>14
<1> QED
  BY <1>2, <1>3

\* The same of a rate limit.
LEMMA RateOverAnyPart ==
  ASSUME MemoryInv, NEW candidate \in Candidates, NewlyBlocked(candidate) = {},
         NEW rule \in candidate, rule.type = "rate-limit", rule.windowLen # 0,
         NEW entries \in SUBSET log
  PROVE  Cardinality(entries) <= rule.maxPayments
<1>0. rule.maxPayments \in Nat /\ rule.windowLen \in Nat /\ WellFormed(rule)
  BY CandidatesAssumption DEF WellFormed
<1>1. CASE entries = {}
  <2>1. Cardinality(entries) = 0
    BY <1>1, FS_EmptySet, Zenon
  <2> QED
    BY <1>0, <2>1
<1>2. CASE entries # {}
  <2> DEFINE IsNewest(e) == \A d \in entries : d = e \/ d.id < e.id
  <2>1. PICK e \in entries : IsNewest(e)
    BY <1>2, LatestEntry
  <2> DEFINE rest == entries \ {e}
             ctx == Simulated(e)
             counted == {s \in ctx.spends : s.ts > ctx.now - rule.windowLen}
  <2>2. e \in log /\ rest \in SUBSET log
    BY <2>1
  <2>3. \A d \in rest : d \in Replayed(e)
    <3> TAKE d \in rest
    <3>1. d.id < e.id /\ d \in log
      BY <2>1
    <3> QED
      BY <3>1 DEF Replayed
  <2>4. ctx.now = now /\ ctx.spends = {Replay[d] : d \in Replayed(e)}
    BY <2>2, SimulatedSpends
  <2>5. counted \in SUBSET ctx.spends
    OBVIOUS
  <2>6. counted = {s \in ctx.spends : s.ts > ctx.now - rule.windowLen}
    OBVIOUS
  <2> HIDE DEF counted
  <2>7. IsFiniteSet(counted) /\ Cardinality(counted) \in Nat
    BY <2>2, <2>5, SimulatedSpends, FS_CardinalityType
  <2>8. \A d \in rest : Replay[d] \in counted /\ Replay[d].id = d.id
    <3> TAKE d \in rest
    <3>1. d \in log /\ Replay[d] \in ctx.spends
      BY <2>2, <2>3, <2>4
    <3>2. Replay[d].id = d.id /\ Replay[d].ts = now
      BY <3>1, ReplayFields
    <3>3. now > now - rule.windowLen
      <4>1. now \in Nat
        BY EvaluatorAssumption DEF MemoryInv, TypeOK
      <4> QED
        BY <1>0, <4>1
    <3> HIDE DEF ctx
    <3> QED
      BY <2>4, <2>6, <3>1, <3>2, <3>3
  <2> HIDE DEF ctx
  <2>9. ~EvaluateRules(candidate, ctx).critical
    BY <2>2, NothingCritical DEF ctx
  <2>10. Cardinality(counted) + 1 <= rule.maxPayments
    BY <1>0, <2>6, <2>7, <2>9, RateChecked
  <2> HIDE DEF rest
  <2>11. Cardinality(rest) <= Cardinality(counted)
    BY <2>2, <2>7, <2>8, CountAtMost
  <2>12. IsFiniteSet(entries) /\ Cardinality(entries) \in Nat
    BY EntriesFinite
  <2>13. Cardinality(rest) = Cardinality(entries) - 1
    BY <2>1, <2>12, FS_RemoveElement DEF rest
  <2> QED
    BY <1>0, <2>7, <2>10, <2>11, <2>12, <2>13
<1> QED
  BY <1>1, <1>2

(***************************************************************************)
(* A candidate that the backtest says blocks nothing has caps, rates, lists *)
(* and blocked strangers that this history kept, at every moment and across *)
(* restarts: the replay puts the whole history in one window, and every     *)
(* window is a part of it.  Nothing is said of the candidate's hours.       *)
(***************************************************************************)
THEOREM BacktestIsConservative == Spec => []BacktestMissesNothing
<1>1. ASSUME MemoryInv, NEW candidate \in Candidates, NewlyBlocked(candidate) = {},
             NEW rule \in candidate, NEW at \in Nat
      PROVE  Kept(rule, at)
  <2>1. \A len : Within(len, at) \in SUBSET log
    BY DEF Within
  <2>2. WellFormed(rule)
    BY CandidatesAssumption
  <2>3. ASSUME NEW e \in log
        PROVE  /\ ~EvaluateRules(candidate, Simulated(e)).critical
               /\ Dispatch(rule, Simulated(e)).severity # "critical"
               /\ Simulated(e).req = e.req
    BY <1>1, NothingCritical, NoRuleSkipped, SimulatedSpends
  <2>4. CASE rule.type = "spend-cap"
    <3>1. ASSUME rule.window = "transaction", NEW e \in log, e.req.token = rule.token
          PROVE  e.req.amount <= rule.maxAmount
      <4> DEFINE ctx == Simulated(e)
      <4>1. ctx.req = e.req /\ e.req.amount \in Int
        BY <1>1, <2>3, EntryFields DEF MemoryInv
      <4>2. ~EvaluateRules(candidate, ctx).critical
        BY <2>3
      <4> HIDE DEF ctx
      <4>3. ctx.req.amount <= rule.maxAmount
        BY <2>2, <2>4, <3>1, <4>1, <4>2, CapChecked
      <4> QED
        BY <4>1, <4>3
    <3>2. rule.window \in {"transaction", "session", "hour", "day"}
      BY <2>2, <2>4 DEF WellFormed
    <3>3. ASSUME rule.window # "transaction", NEW entries \in SUBSET log
          PROVE  Paid(entries, rule.token) <= rule.maxAmount
      BY <1>1, <2>4, <3>3, CapOverAnyPart
    <3>4. CapsKept({rule}, at)
      BY <2>1, <3>1, <3>2, <3>3 DEF CapsKept
    <3> QED
      BY <2>4, <3>4 DEF Kept
  <2>5. CASE rule.type = "rate-limit"
    <3>1. rule.maxPayments \in Nat
      BY <2>2, <2>5 DEF WellFormed
    <3>2. CASE rule.windowLen = 0
      <4>1. Within(0, at) = {}
        <5>1. \A e \in log : e.ts \in Nat
          BY <1>1, EntryFields DEF MemoryInv
        <5> QED
          BY <1>1, <5>1 DEF Within
      <4>2. Cardinality(Within(rule.windowLen, at)) = 0
        BY <3>2, <4>1, FS_EmptySet, Zenon
      <4> QED
        BY <2>5, <3>1, <4>2 DEF Kept, RateKept
    <3>3. CASE rule.windowLen # 0
      <4>1. Cardinality(Within(rule.windowLen, at)) <= rule.maxPayments
        BY <1>1, <2>1, <2>5, <3>3, RateOverAnyPart
      <4> QED
        BY <2>5, <4>1 DEF Kept, RateKept
    <3> QED
      BY <3>2, <3>3
  <2>6. CASE rule.type = "allowlist" /\ rule.enforce
    <3>1. ASSUME NEW e \in log PROVE Listed(rule, e.req)
      <4> DEFINE ctx == Simulated(e)
      <4>1. Dispatch(rule, ctx) = CheckAllowlist(rule, ctx)
        BY <2>6 DEF Dispatch
      <4>2. ctx.req = e.req /\ Dispatch(rule, ctx).severity # "critical"
        BY <2>3, <3>1
      <4>3. Fail("critical").severity = "critical"
        BY DEF Fail
      <4> HIDE DEF ctx
      <4> QED
        BY <2>6, <4>1, <4>2, <4>3 DEF CheckAllowlist, Listed
    <3> QED
      BY <2>6, <3>1 DEF Kept
  <2>7. CASE rule.type = "counterparty" /\ rule.flagNewRecipients /\ rule.action = "block"
    <3>1. ASSUME NEW e \in log PROVE ~FirstTo(e)
      <4> DEFINE ctx == Simulated(e)
      <4>1. Dispatch(rule, ctx) = CheckCounterparty(rule, ctx)
        BY <2>7 DEF Dispatch
      <4>2. ctx.req = e.req /\ Dispatch(rule, ctx).severity # "critical"
        BY <2>3, <3>1
      <4>3. ctx.seen = {d.req.recipient : d \in Replayed(e)}
        BY DEF Simulated
      <4>4. FailAs("block").severity = "critical"
        BY DEF FailAs
      <4> HIDE DEF ctx
      <4>5. e.req.recipient \in ctx.seen
        BY <2>7, <4>1, <4>2, <4>4 DEF CheckCounterparty
      <4>6. PICK d \in log : d.req.recipient = e.req.recipient /\ d.id < e.id
        BY <4>3, <4>5 DEF Replayed
      <4>7. d.id \in Nat /\ e.id \in Nat
        BY <1>1, EntryFields DEF MemoryInv
      <4> QED
        BY <4>6, <4>7 DEF FirstTo
    <3> QED
      BY <2>7, <3>1 DEF Kept
  <2> QED
    BY <2>4, <2>5, <2>6, <2>7 DEF Kept
<1>2. MemoryInv => BacktestMissesNothing
  <2> SUFFICES ASSUME MemoryInv, NEW candidate \in Candidates, NewlyBlocked(candidate) = {},
                      NEW rule \in candidate, NEW e \in log
               PROVE  Kept(rule, e.ts)
    BY DEF BacktestMissesNothing
  <2>1. e.ts \in Nat
    BY EntryFields DEF MemoryInv
  <2> QED
    BY <1>1, <2>1
<1> QED
  BY <1>2, MemoryRight, PTL
=============================================================================
