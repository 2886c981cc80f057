------------------------ MODULE ServiceProcessProofs ------------------------
(***************************************************************************)
(* Proofs about ServiceProcess, for any number of resources, checks and    *)
(* overlapping probes.  What a readiness probe answers follows from what   *)
(* its checks have seen so far (Vouched); what is open follows from the    *)
(* phase and the position in the lifespan (Opened).                        *)
(***************************************************************************)
EXTENDS ServiceProcess, TLAPS

\* What a probe's local state says of the moments since it arrived.
ProbeVouched(p) ==
    /\ probe[p].healthy => \A i \in 1 .. probe[p].at : Checks[i] \in sawUp[p] \cup known
    /\ ~probe[p].healthy => probe[p].failed # {}
    /\ probe[p].state = "checking" => Up \subseteq sawUp[p]
    /\ probe[p].state = "waiting" => probe[p].at = 0
    /\ probe[p].answer = 503 => ~probe[p].healthy
    /\ probe[p].kind = "ready" /\ probe[p].answer = 200 =>
          probe[p].healthy /\ probe[p].at = Len(Checks)
    /\ probe[p].answer # 0 => probe[p].state = "answered"

Vouched == \A p \in Probes : ProbeVouched(p)

\* What is open at each point of the lifespan, and when a check may run.
Opened ==
    /\ phase = "starting" => /\ done <= Len(Opens)
                             /\ {Opens[i] : i \in 1 .. done} \subseteq open
    /\ phase \in {"serving", "draining"} => open = Resources /\ done = 0
    /\ phase = "closing" => open \cap {Closes[i] : i \in 1 .. done} = {}
    /\ phase = "ended" => broken \/ open = {}
    /\ \A p \in Probes : probe[p].state = "checking" => phase \in {"serving", "draining"}

-----------------------------------------------------------------------------

\* The lengths of the three orders are numbers.
LEMMA Lengths ==
    Len(Opens) \in Nat /\ Len(Closes) \in Nat /\ Len(Checks) \in Nat
BY OrdersAssumption

\* The check that is asked next is one of the registered ones.
LEMMA AskedIsChecked ==
    ASSUME TypeOK, NEW p \in Probes, Checking(p)
    PROVE  /\ probe[p].at + 1 \in 1 .. Len(Checks)
           /\ probe[p].at + 1 \in 0 .. Len(Checks)
           /\ Asked(p) \in Checked
           /\ Checked \subseteq Resources
<1>1. probe[p].at \in 0 .. Len(Checks)
  BY DEF TypeOK, Probe
<1>2. probe[p].at + 1 \in 1 .. Len(Checks)
  BY <1>1, Lengths DEF Checking
<1> QED
  BY <1>2, OrdersAssumption DEF Asked, Checked

\* What an update of one field keeps.
LEMMA FieldUpdates ==
    ASSUME NEW r \in Probe
    PROVE  /\ \A s \in {"waiting", "checking", "answered"} : [r EXCEPT !.state = s] \in Probe
           /\ \A n \in 0 .. Len(Checks) : [r EXCEPT !.at = n] \in Probe
           /\ \A b \in BOOLEAN : [r EXCEPT !.healthy = b] \in Probe
           /\ \A F \in SUBSET Checked : [r EXCEPT !.failed = F] \in Probe
           /\ \A a \in {0, 200, 503} : [r EXCEPT !.answer = a] \in Probe
BY DEF Probe

\* A step that updates one probe only keeps the type if the new value has it.
LEMMA ProbeUpdate ==
    ASSUME TypeOK, NEW p \in Probes, NEW new \in Probe,
           probe' = [probe EXCEPT ![p] = new], known' \subseteq Cached,
           UNCHANGED <<phase, done, open, broken, status, sawUp, turns>>
    PROVE  TypeOK'
BY DEF TypeOK

\* Every variable has its type (check_all's local state, the lifespan's
\* position), for any resources and probes.
THEOREM TypeCorrect == Spec => []TypeOK
<1>1. Init => TypeOK
  <2>1. ASSUME NEW r \in Fresh PROVE r \in Probe
    <3>1. 0 \in 0 .. Len(Checks)
      BY Lengths
    <3> QED
      BY <2>1, <3>1 DEF Fresh, Probe
  <2> SUFFICES ASSUME Init PROVE TypeOK
    OBVIOUS
  <2>2. probe \in [Probes -> Probe]
    BY <2>1 DEF Init
  <2>3. status \in [Resources -> Statuses]
    BY DEF Init, Statuses
  <2>4. sawUp \in [Probes -> SUBSET Resources] /\ open \in SUBSET Resources /\ known \subseteq Cached
    BY DEF Init
  <2>5. phase \in Phases /\ broken \in BOOLEAN
    BY DEF Init, Phases
  <2>6. done \in Nat /\ turns \in 0 .. MaxTurns
    BY MaxTurnsAssumption DEF Init
  <2> QED
    BY <2>2, <2>3, <2>4, <2>5, <2>6 DEF TypeOK
<1>2. TypeOK /\ [Next]_vars => TypeOK'
  <2> SUFFICES ASSUME TypeOK, [Next]_vars PROVE TypeOK'
    OBVIOUS
  <2>1. CASE Lifecycle \/ Interrupt \/ Terminate
    <3>1. Initialize => TypeOK'
      BY OrdersAssumption DEF Initialize, TypeOK, Resources
    <3>2. InitializeFails => TypeOK'
      BY DEF InitializeFails, TypeOK, Phases
    <3>3. Serve => TypeOK'
      BY DEF Serve, TypeOK, Phases
    <3>6. Interrupt \/ Terminate => TypeOK'
      BY DEF Interrupt, Terminate, TypeOK, Phases
    <3>4. Drained \/ Close => TypeOK'
      BY DEF Drained, Close, TypeOK, Phases
    <3>5. CloseFails \/ End => TypeOK'
      BY DEF CloseFails, End, TypeOK, Phases
    <3> QED
      BY <2>1, <3>1, <3>2, <3>3, <3>4, <3>5, <3>6 DEF Lifecycle
  <2>2. ASSUME NEW p \in Probes, Receive(p) PROVE TypeOK'
    <3>1. [probe[p] EXCEPT !.state = "checking"] \in Probe
      BY FieldUpdates DEF TypeOK
    <3>2. probe' = [probe EXCEPT ![p] = [probe[p] EXCEPT !.state = "checking"]]
      BY <2>2 DEF Receive
    <3> QED
      BY <2>2, <3>1, <3>2 DEF Receive, Up, TypeOK
  <2>3. ASSUME NEW p \in Probes, CheckPasses(p) PROVE TypeOK'
    <3>1. [probe[p] EXCEPT !.at = @ + 1] \in Probe
      BY <2>3, AskedIsChecked, FieldUpdates DEF CheckPasses, Passes, TypeOK
    <3>2. probe' = [probe EXCEPT ![p] = [probe[p] EXCEPT !.at = @ + 1]]
      BY <2>3 DEF CheckPasses
    <3>3. known' \subseteq Cached
      BY <2>3 DEF CheckPasses, Passes, TypeOK
    <3> QED
      BY <2>3, <3>1, <3>2, <3>3, ProbeUpdate DEF CheckPasses
  <2>4. ASSUME NEW p \in Probes, CheckFails(p) PROVE TypeOK'
    <3> DEFINE new == [probe[p] EXCEPT !.at = @ + 1, !.healthy = FALSE,
                                       !.failed = @ \cup {Asked(p)}]
               next == [probe[p] EXCEPT !.at = @ + 1]
               unhealthy == [next EXCEPT !.healthy = FALSE]
    <3>1. new \in Probe
      <4>1. next \in Probe
        BY <2>4, AskedIsChecked, FieldUpdates DEF CheckFails, TypeOK
      <4>2. unhealthy \in Probe
        <5> HIDE DEF next
        <5> QED BY <4>1, FieldUpdates
      <4>3. probe[p].failed \cup {Asked(p)} \in SUBSET Checked
        BY <2>4, AskedIsChecked DEF CheckFails, TypeOK, Probe
      <4>4. [unhealthy EXCEPT !.failed = probe[p].failed \cup {Asked(p)}] \in Probe
        <5> HIDE DEF unhealthy
        <5> QED BY <4>2, <4>3, FieldUpdates
      <4>5. new = [unhealthy EXCEPT !.failed = probe[p].failed \cup {Asked(p)}]
        OBVIOUS
      <4> HIDE DEF new, unhealthy
      <4> QED
        BY <4>4, <4>5
    <3>2. probe' = [probe EXCEPT ![p] = new]
      BY <2>4 DEF CheckFails
    <3> HIDE DEF new
    <3> QED
      BY <2>4, <3>1, <3>2, ProbeUpdate DEF CheckFails, TypeOK
  <2>5. ASSUME NEW p \in Probes, AnswerReady(p) PROVE TypeOK'
    <3> DEFINE code == IF probe[p].healthy THEN 200 ELSE 503
               new == [probe[p] EXCEPT !.state = "answered", !.answer = code]
               ended == [probe[p] EXCEPT !.state = "answered"]
    <3>1. new \in Probe
      <4>1. ended \in Probe
        BY FieldUpdates DEF TypeOK
      <4>2. \A a \in {0, 200, 503} : [ended EXCEPT !.answer = a] \in Probe
        <5> HIDE DEF ended
        <5> QED BY <4>1, FieldUpdates
      <4>3. code \in {0, 200, 503}
        OBVIOUS
      <4>4. new = [ended EXCEPT !.answer = code]
        OBVIOUS
      <4> HIDE DEF code, ended, new
      <4> QED
        BY <4>2, <4>3, <4>4
    <3>2. probe' = [probe EXCEPT ![p] = new]
      <4>1. probe' = [probe EXCEPT ![p].state = "answered", ![p].answer = code]
        BY <2>5 DEF AnswerReady
      <4> HIDE DEF code
      <4> QED
        BY <4>1
    <3> HIDE DEF new
    <3> QED
      BY <2>5, <3>1, <3>2, ProbeUpdate DEF AnswerReady, TypeOK
  <2>6. ASSUME NEW p \in Probes, AnswerLive(p) PROVE TypeOK'
    <3> DEFINE new == [probe[p] EXCEPT !.state = "answered", !.answer = 200]
               ended == [probe[p] EXCEPT !.state = "answered"]
    <3>1. new \in Probe
      <4>1. ended \in Probe
        BY FieldUpdates DEF TypeOK
      <4>2. \A a \in {0, 200, 503} : [ended EXCEPT !.answer = a] \in Probe
        <5> HIDE DEF ended
        <5> QED BY <4>1, FieldUpdates
      <4>3. new = [ended EXCEPT !.answer = 200]
        OBVIOUS
      <4> HIDE DEF ended, new
      <4> QED
        BY <4>2, <4>3
    <3>2. probe' = [probe EXCEPT ![p] = new]
      BY <2>6 DEF AnswerLive
    <3> HIDE DEF new
    <3> QED
      BY <2>6, <3>1, <3>2, ProbeUpdate DEF AnswerLive, TypeOK
  <2>7. ASSUME NEW d \in Resources, Turn(d) PROVE TypeOK'
    <3>1. turns' \in 0 .. MaxTurns
      BY <2>7, MaxTurnsAssumption DEF Turn, TypeOK
    <3>2. status' \in [Resources -> Statuses]
      BY <2>7 DEF Turn, TypeOK
    <3>3. sawUp' \in [Probes -> SUBSET Resources]
      BY <2>7 DEF Turn, TypeOK
    <3> QED
      BY <2>7, <3>1, <3>2, <3>3 DEF Turn, TypeOK
  <2>8. ASSUME NEW d \in Cached, Learn(d) PROVE TypeOK'
    BY <2>8 DEF Learn, TypeOK
  <2>9. CASE UNCHANGED vars
    BY <2>9 DEF vars, TypeOK
  <2> QED
    BY <2>1, <2>2, <2>3, <2>4, <2>5, <2>6, <2>7, <2>8, <2>9 DEF Next
<1> QED
  BY <1>1, <1>2, PTL DEF Spec

-----------------------------------------------------------------------------
(* What a probe answers.                                                   *)

\* One case per step of a probe, and under it one for the probe that steps and
\* one for the others; the lifespan's steps touch no probe.
LEMMA VouchedInductive == TypeOK /\ Vouched /\ [Next]_vars => Vouched'
<1> SUFFICES ASSUME TypeOK, Vouched, [Next]_vars, NEW q \in Probes
             PROVE  ProbeVouched(q)'
  BY DEF Vouched
<1>q. ProbeVouched(q) /\ probe[q] \in Probe
  BY DEF Vouched, TypeOK
<1>1. CASE UNCHANGED <<probe, sawUp, status, known>>
  BY <1>1, <1>q DEF ProbeVouched, Up
<1>2. ASSUME NEW p \in Probes, Receive(p) PROVE ProbeVouched(q)'
  <2>1. CASE q = p
    <3>1. /\ probe'[p] = [probe[p] EXCEPT !.state = "checking"]
          /\ sawUp'[p] = Up /\ Up' = Up /\ known' = known
      BY <1>2 DEF Receive, TypeOK, Up
    <3>2. probe[p].state = "waiting" /\ probe[p].at = 0
      BY <1>2, <1>q, <2>1 DEF Receive, ProbeVouched
    <3>3. probe[p].answer = 0
      BY <3>2, <1>q, <2>1 DEF ProbeVouched
    <3>4. /\ probe'[p].at = 0 /\ probe'[p].answer = 0 /\ probe'[p].state = "checking"
          /\ probe'[p].healthy = probe[p].healthy /\ probe'[p].failed = probe[p].failed
      BY <3>1, <3>2, <3>3, <1>q, <2>1 DEF Probe
    <3>a. probe'[p].healthy => \A i \in 1 .. probe'[p].at : Checks[i] \in sawUp'[p] \cup known'
      BY <3>1, <3>4, <1>q, <2>1 DEF ProbeVouched
    <3>b. ~probe'[p].healthy => probe'[p].failed # {}
      BY <3>1, <3>4, <1>q, <2>1 DEF ProbeVouched
    <3>c. probe'[p].state = "checking" => Up' \subseteq sawUp'[p]
      BY <3>1, <3>4, <1>q, <2>1 DEF ProbeVouched
    <3>d. /\ probe'[p].state = "waiting" => probe'[p].at = 0
          /\ probe'[p].answer = 503 => ~probe'[p].healthy
          /\ probe'[p].kind = "ready" /\ probe'[p].answer = 200 =>
                probe'[p].healthy /\ probe'[p].at = Len(Checks)
          /\ probe'[p].answer # 0 => probe'[p].state = "answered"
      BY <3>1, <3>4, <1>q, <2>1 DEF ProbeVouched
    <3> QED
      BY <3>a, <3>b, <3>c, <3>d, <2>1 DEF ProbeVouched
  <2>2. CASE q # p
    BY <1>2, <1>q, <2>2 DEF Receive, ProbeVouched, Up, TypeOK
  <2> QED
    BY <2>1, <2>2
<1>3. ASSUME NEW p \in Probes, CheckPasses(p) PROVE ProbeVouched(q)'
  <2>1. CASE q = p
    <3>1. /\ probe'[p] = [probe[p] EXCEPT !.at = @ + 1]
          /\ sawUp' = sawUp /\ Up' = Up /\ known \subseteq known'
      BY <1>3 DEF CheckPasses, Passes, TypeOK, Up
    <3>2. probe[p].state = "checking" /\ probe[p].answer = 0
      BY <1>3, <1>q, <2>1 DEF CheckPasses, Passes, Checking, ProbeVouched
    <3>3. probe[p].at \in Nat /\ probe[p].at + 1 \in 1 .. Len(Checks) /\ Asked(p) \in Resources
      BY <1>3, <1>q, <2>1, AskedIsChecked, Lengths DEF CheckPasses, Passes, Probe
    <3>4. Checks[probe[p].at + 1] \in sawUp[p] \cup known
      BY <1>3, <1>q, <2>1, <3>2, <3>3 DEF CheckPasses, Passes, Asked, Up, ProbeVouched
    <3>5. \A i \in 1 .. probe[p].at + 1 : i \in 1 .. probe[p].at \/ i = probe[p].at + 1
      BY <3>3
    <3>6. /\ probe'[p].at = probe[p].at + 1 /\ probe'[p].answer = 0
          /\ probe'[p].state = "checking" /\ probe'[p].healthy = probe[p].healthy
          /\ probe'[p].failed = probe[p].failed
      BY <3>1, <3>2, <1>q, <2>1 DEF Probe
    <3>a. probe'[p].healthy => \A i \in 1 .. probe'[p].at : Checks[i] \in sawUp'[p] \cup known'
      BY <3>1, <3>2, <3>4, <3>5, <3>6, <1>q, <2>1 DEF ProbeVouched
    <3>b. ~probe'[p].healthy => probe'[p].failed # {}
      BY <3>1, <3>2, <3>4, <3>5, <3>6, <1>q, <2>1 DEF ProbeVouched
    <3>c. probe'[p].state = "checking" => Up' \subseteq sawUp'[p]
      BY <3>1, <3>2, <3>4, <3>5, <3>6, <1>q, <2>1 DEF ProbeVouched
    <3>d. /\ probe'[p].state = "waiting" => probe'[p].at = 0
          /\ probe'[p].answer = 503 => ~probe'[p].healthy
          /\ probe'[p].kind = "ready" /\ probe'[p].answer = 200 =>
                probe'[p].healthy /\ probe'[p].at = Len(Checks)
          /\ probe'[p].answer # 0 => probe'[p].state = "answered"
      BY <3>1, <3>2, <3>4, <3>5, <3>6, <1>q, <2>1 DEF ProbeVouched
    <3> QED
      BY <3>a, <3>b, <3>c, <3>d, <2>1 DEF ProbeVouched
  <2>2. CASE q # p
    BY <1>3, <1>q, <2>2 DEF CheckPasses, Passes, ProbeVouched, Up, TypeOK
  <2> QED
    BY <2>1, <2>2
<1>4. ASSUME NEW p \in Probes, CheckFails(p) PROVE ProbeVouched(q)'
  <2>1. CASE q = p
    <3>1. /\ probe'[p] = [probe[p] EXCEPT !.at = @ + 1, !.healthy = FALSE,
                                          !.failed = @ \cup {Asked(p)}]
          /\ sawUp' = sawUp /\ known' = known /\ Up' = Up
      BY <1>4 DEF CheckFails, TypeOK, Up
    <3>2. probe[p].state = "checking" /\ probe[p].answer = 0
      BY <1>4, <1>q, <2>1 DEF CheckFails, Checking, ProbeVouched
    <3>3. /\ probe'[p].answer = 0 /\ probe'[p].state = "checking"
          /\ probe'[p].healthy = FALSE /\ Asked(p) \in probe'[p].failed
      BY <3>1, <3>2, <1>q, <2>1 DEF Probe
    <3>a. probe'[p].healthy => \A i \in 1 .. probe'[p].at : Checks[i] \in sawUp'[p] \cup known'
      BY <3>1, <3>2, <3>3, <1>q, <2>1 DEF ProbeVouched
    <3>b. ~probe'[p].healthy => probe'[p].failed # {}
      BY <3>1, <3>2, <3>3, <1>q, <2>1 DEF ProbeVouched
    <3>c. probe'[p].state = "checking" => Up' \subseteq sawUp'[p]
      BY <3>1, <3>2, <3>3, <1>q, <2>1 DEF ProbeVouched
    <3>d. /\ probe'[p].state = "waiting" => probe'[p].at = 0
          /\ probe'[p].answer = 503 => ~probe'[p].healthy
          /\ probe'[p].kind = "ready" /\ probe'[p].answer = 200 =>
                probe'[p].healthy /\ probe'[p].at = Len(Checks)
          /\ probe'[p].answer # 0 => probe'[p].state = "answered"
      BY <3>1, <3>2, <3>3, <1>q, <2>1 DEF ProbeVouched
    <3> QED
      BY <3>a, <3>b, <3>c, <3>d, <2>1 DEF ProbeVouched
  <2>2. CASE q # p
    BY <1>4, <1>q, <2>2 DEF CheckFails, ProbeVouched, Up, TypeOK
  <2> QED
    BY <2>1, <2>2
<1>5. ASSUME NEW p \in Probes, AnswerReady(p) PROVE ProbeVouched(q)'
  <2>1. CASE q = p
    <3>1. /\ probe'[p] = [probe[p] EXCEPT !.state = "answered",
                                !.answer = IF probe[p].healthy THEN 200 ELSE 503]
          /\ sawUp' = sawUp /\ known' = known /\ probe[p].at = Len(Checks)
      BY <1>5 DEF AnswerReady, TypeOK
    <3>2. /\ probe'[p].state = "answered" /\ probe'[p].at = Len(Checks)
          /\ probe'[p].healthy = probe[p].healthy /\ probe'[p].failed = probe[p].failed
          /\ probe[p].healthy \in BOOLEAN
      BY <3>1, <1>q, <2>1 DEF Probe
    <3>3. /\ probe[p].healthy => probe'[p].answer = 200
          /\ ~probe[p].healthy => probe'[p].answer = 503
      BY <3>1, <1>q, <2>1 DEF Probe
    <3>a. probe'[p].healthy => \A i \in 1 .. probe'[p].at : Checks[i] \in sawUp'[p] \cup known'
      BY <3>1, <3>2, <3>3, <1>q, <2>1 DEF ProbeVouched
    <3>b. ~probe'[p].healthy => probe'[p].failed # {}
      BY <3>1, <3>2, <3>3, <1>q, <2>1 DEF ProbeVouched
    <3>c. probe'[p].state = "checking" => Up' \subseteq sawUp'[p]
      BY <3>1, <3>2, <3>3, <1>q, <2>1 DEF ProbeVouched
    <3>d. /\ probe'[p].state = "waiting" => probe'[p].at = 0
          /\ probe'[p].answer = 503 => ~probe'[p].healthy
          /\ probe'[p].kind = "ready" /\ probe'[p].answer = 200 =>
                probe'[p].healthy /\ probe'[p].at = Len(Checks)
          /\ probe'[p].answer # 0 => probe'[p].state = "answered"
      BY <3>1, <3>2, <3>3, <1>q, <2>1 DEF ProbeVouched
    <3> QED
      BY <3>a, <3>b, <3>c, <3>d, <2>1 DEF ProbeVouched
  <2>2. CASE q # p
    BY <1>5, <1>q, <2>2 DEF AnswerReady, ProbeVouched, Up, TypeOK
  <2> QED
    BY <2>1, <2>2
<1>6. ASSUME NEW p \in Probes, AnswerLive(p) PROVE ProbeVouched(q)'
  <2>1. CASE q = p
    <3>1. /\ probe'[p] = [probe[p] EXCEPT !.state = "answered", !.answer = 200]
          /\ sawUp' = sawUp /\ known' = known /\ probe[p].kind = "live"
      BY <1>6 DEF AnswerLive, TypeOK
    <3>2. /\ probe'[p].state = "answered" /\ probe'[p].answer = 200
          /\ probe'[p].kind = "live" /\ probe'[p].at = probe[p].at
          /\ probe'[p].healthy = probe[p].healthy /\ probe'[p].failed = probe[p].failed
      BY <3>1, <1>q, <2>1 DEF Probe
    <3>a. probe'[p].healthy => \A i \in 1 .. probe'[p].at : Checks[i] \in sawUp'[p] \cup known'
      BY <3>1, <3>2, <1>q, <2>1 DEF ProbeVouched
    <3>b. ~probe'[p].healthy => probe'[p].failed # {}
      BY <3>1, <3>2, <1>q, <2>1 DEF ProbeVouched
    <3>c. probe'[p].state = "checking" => Up' \subseteq sawUp'[p]
      BY <3>1, <3>2, <1>q, <2>1 DEF ProbeVouched
    <3>d. /\ probe'[p].state = "waiting" => probe'[p].at = 0
          /\ probe'[p].answer = 503 => ~probe'[p].healthy
          /\ probe'[p].kind = "ready" /\ probe'[p].answer = 200 =>
                probe'[p].healthy /\ probe'[p].at = Len(Checks)
          /\ probe'[p].answer # 0 => probe'[p].state = "answered"
      BY <3>1, <3>2, <1>q, <2>1 DEF ProbeVouched
    <3> QED
      BY <3>a, <3>b, <3>c, <3>d, <2>1 DEF ProbeVouched
  <2>2. CASE q # p
    BY <1>6, <1>q, <2>2 DEF AnswerLive, ProbeVouched, Up, TypeOK
  <2> QED
    BY <2>1, <2>2
<1>7. ASSUME NEW d \in Resources, Turn(d) PROVE ProbeVouched(q)'
  <2>1. probe' = probe /\ sawUp[q] \subseteq sawUp'[q] /\ known' = known
    BY <1>7 DEF Turn, TypeOK
  <2>2. probe[q].state = "checking" => Up' \subseteq sawUp'[q]
    <3> SUFFICES ASSUME probe[q].state = "checking", NEW e \in Resources, status'[e] = "up"
                 PROVE  e \in sawUp'[q]
      BY DEF Up
    <3>1. CASE e = d
      BY <1>7, <3>1 DEF Turn, TypeOK
    <3>2. CASE e # d
      <4>1. status[e] = "up"
        BY <1>7, <3>2 DEF Turn, TypeOK
      <4> QED
        BY <4>1, <1>q, <2>1 DEF ProbeVouched, Up
    <3> QED
      BY <3>1, <3>2
  <2> QED
    BY <2>1, <2>2, <1>q DEF ProbeVouched
<1>8. CASE Lifecycle \/ Interrupt \/ Terminate
  BY <1>8, <1>1 DEF Lifecycle, Initialize, InitializeFails, Serve, Drained, Close, CloseFails,
     End, Interrupt, Terminate
<1>9. ASSUME NEW d \in Cached, Learn(d) PROVE ProbeVouched(q)'
  <2>1. probe' = probe /\ sawUp' = sawUp /\ status' = status /\ known \subseteq known'
    BY <1>9 DEF Learn
  <2> QED
    BY <2>1, <1>q DEF ProbeVouched, Up
<1>10. CASE UNCHANGED vars
  BY <1>10, <1>1 DEF vars
<1> QED
  BY <1>2, <1>3, <1>4, <1>5, <1>6, <1>7, <1>8, <1>9, <1>10 DEF Next

LEMMA AlwaysVouched == Spec => [](TypeOK /\ Vouched)
<1>1. Init => Vouched
  <2> SUFFICES ASSUME Init, NEW p \in Probes PROVE ProbeVouched(p)
    BY DEF Vouched
  <2>1. probe[p] \in Fresh
    BY DEF Init
  <2>2. /\ probe[p].state = "waiting" /\ probe[p].at = 0 /\ probe[p].healthy
        /\ probe[p].answer = 0
    BY <2>1 DEF Fresh
  <2> QED
    BY <2>2 DEF ProbeVouched
<1> QED
  BY <1>1, VouchedInductive, TypeCorrect, PTL DEF Spec

\* A readiness probe answers 200 only if every checked dependency was up at
\* some moment between its arrival and its answer, however many checks there
\* are, probes overlap and dependencies turn: all but those, Kafka alone, whose
\* check is answered from what its client remembers.
THEOREM ReadyAnswersTrue == Spec => []ReadyWasTrue
<1>1. TypeOK /\ Vouched => ReadyWasTrue
  <2> SUFFICES ASSUME TypeOK, Vouched, NEW p \in Probes, NEW d \in Checked,
                      probe[p].kind = "ready", probe[p].answer = 200
               PROVE  d \in sawUp[p] \/ (d \in known /\ d \in Cached)
    BY DEF ReadyWasTrue
  <2>1. \A i \in 1 .. Len(Checks) : Checks[i] \in sawUp[p] \cup known
    BY DEF Vouched, ProbeVouched
  <2>2. PICK i \in 1 .. Len(Checks) : d = Checks[i]
    BY OrdersAssumption DEF Checked
  <2> QED
    BY <2>1, <2>2 DEF TypeOK
<1> QED
  BY <1>1, AlwaysVouched, PTL

\* A readiness probe answers 503 only because of a check of its own.
THEOREM NotReadyHasCause == Spec => []NotReadyHadCause
<1>1. Vouched => NotReadyHadCause
  BY DEF Vouched, ProbeVouched, NotReadyHadCause
<1> QED
  BY <1>1, AlwaysVouched, PTL

-----------------------------------------------------------------------------
(* What is open when.                                                      *)

LEMMA OpenedInductive == TypeOK /\ Opened /\ [Next]_vars => Opened'
<1> SUFFICES ASSUME TypeOK, Opened, [Next]_vars PROVE Opened'
  OBVIOUS
<1>t. /\ open \subseteq Resources /\ done \in Nat /\ Len(Opens) \in Nat /\ Len(Closes) \in Nat
      /\ broken \in BOOLEAN
  BY Lengths DEF TypeOK
<1>1. CASE Initialize
  <2>1. /\ phase = "starting" /\ phase' = phase /\ done' = done + 1 /\ done < Len(Opens)
        /\ open' = open \cup {Opens[done + 1]} /\ probe' = probe
    BY <1>1 DEF Initialize
  <2>2. \A i \in 1 .. done + 1 : i \in 1 .. done \/ i = done + 1
    BY <1>t
  <2>3. {Opens[i] : i \in 1 .. done'} \subseteq open'
    BY <2>1, <2>2 DEF Opened
  <2>4. done' <= Len(Opens)
    BY <2>1, <1>t
  <2> QED
    BY <2>1, <2>3, <2>4 DEF Opened
<1>2. CASE InitializeFails \/ Interrupt
  BY <1>2 DEF InitializeFails, Interrupt, Opened
<1>3. CASE Serve
  <2>1. Resources \subseteq open
    BY <1>3, OrdersAssumption DEF Serve, Opened, Resources
  <2> QED
    BY <1>3, <2>1, <1>t DEF Serve, Opened
<1>4. CASE Terminate
  BY <1>4 DEF Terminate, Opened
<1>5. CASE Drained
  <2>1. done = 0 /\ {Closes[i] : i \in 1 .. 0} = {}
    BY <1>5 DEF Drained, Opened
  <2> QED
    BY <1>5, <2>1 DEF Drained, Opened
<1>6. CASE Close
  <2>1. /\ phase = "closing" /\ phase' = phase /\ done' = done + 1
        /\ open' = open \ {Closes[done + 1]} /\ probe' = probe
    BY <1>6 DEF Close
  <2>2. \A i \in 1 .. done + 1 : i \in 1 .. done \/ i = done + 1
    BY <1>t
  <2>3. open' \cap {Closes[i] : i \in 1 .. done'} = {}
    BY <2>1, <2>2 DEF Opened
  <2> QED
    BY <2>1, <2>3 DEF Opened
<1>7. CASE CloseFails
  BY <1>7 DEF CloseFails, Opened
<1>8. CASE End
  <2>1. Resources \subseteq {Closes[i] : i \in 1 .. Len(Closes)}
    BY OrdersAssumption
  <2>2. open = {}
    BY <1>8, <1>t, <2>1 DEF End, Opened
  <2> QED
    BY <1>8, <2>2 DEF End, Opened
<1>9. ASSUME NEW p \in Probes, Receive(p) PROVE Opened'
  BY <1>9 DEF Receive, Opened, TypeOK
<1>10. ASSUME NEW p \in Probes, CheckPasses(p) \/ CheckFails(p) \/ AnswerReady(p) \/ AnswerLive(p)
       PROVE  Opened'
  <2>1. /\ UNCHANGED <<phase, done, open, broken>>
        /\ \A q \in Probes : probe'[q].state = "checking" => probe[q].state = "checking"
    <3>1. CASE CheckPasses(p)
      BY <3>1 DEF CheckPasses, Passes, Checking, TypeOK
    <3>2. CASE CheckFails(p)
      BY <3>2 DEF CheckFails, Checking, TypeOK
    <3>3. CASE AnswerReady(p)
      BY <3>3 DEF AnswerReady, TypeOK
    <3>4. CASE AnswerLive(p)
      BY <3>4 DEF AnswerLive, TypeOK
    <3> QED
      BY <1>10, <3>1, <3>2, <3>3, <3>4
  <2> QED
    BY <2>1 DEF Opened
<1>11. ASSUME NEW d \in Resources, Turn(d) PROVE Opened'
  BY <1>11 DEF Turn, Opened
<1>12. ASSUME NEW d \in Cached, Learn(d) PROVE Opened'
  BY <1>12 DEF Learn, Opened
<1>13. CASE UNCHANGED vars
  BY <1>13 DEF vars, Opened
<1> QED
  BY <1>1, <1>2, <1>3, <1>4, <1>5, <1>6, <1>7, <1>8, <1>9, <1>10, <1>11, <1>12, <1>13
  DEF Next, Lifecycle

LEMMA AlwaysOpened == Spec => [](TypeOK /\ Opened)
<1>1. Init => Opened
  <2> SUFFICES ASSUME Init PROVE Opened
    OBVIOUS
  <2>1. \A p \in Probes : probe[p].state = "waiting"
    <3> TAKE p \in Probes
    <3>1. probe[p] \in Fresh
      BY DEF Init
    <3> QED
      BY <3>1 DEF Fresh
  <2>2. phase = "starting" /\ done = 0 /\ {Opens[i] : i \in 1 .. 0} = {}
    BY DEF Init
  <2> QED
    BY <2>1, <2>2, Lengths DEF Opened
<1> QED
  BY <1>1, OpenedInductive, TypeCorrect, PTL DEF Spec

\* No check ever runs on a manager the lifespan has not initialized, or has
\* closed already.
THEOREM ChecksRunOnOpenResources == Spec => []UsedWhileOpen
<1>1. TypeOK /\ Opened => UsedWhileOpen
  <2> SUFFICES ASSUME TypeOK, Opened, NEW p \in Probes, Checking(p)
               PROVE  Checked \subseteq open
    BY DEF UsedWhileOpen
  <2>1. open = Resources
    BY DEF Opened, Checking
  <2> QED
    BY <2>1, AskedIsChecked
<1> QED
  BY <1>1, AlwaysOpened, PTL

\* Whatever the two orders of the lifespan are, as long as they name the same
\* resources: only a raised exception or an interrupted start leaves one open.
THEOREM EverythingIsClosed == Spec => []ClosedUnlessBroken
<1>1. Opened => ClosedUnlessBroken
  BY DEF Opened, ClosedUnlessBroken
<1> QED
  BY <1>1, AlwaysOpened, PTL
=============================================================================
