-------------------------- MODULE UdpProbesProofs --------------------------
(***************************************************************************)
(* Theorems about UdpProbes, for any addresses, ports and workers, and for *)
(* timers that are late by any bound.                                      *)
(*                                                                         *)
(* The pace: every datagram has an interval of its own, in which it was    *)
(* sent or at most Lateness before; those from one datagram to a later one *)
(* are as many different numbers in a stretch of known length (Permits).   *)
(* The totals: an address belongs to one worker, which goes through its    *)
(* ports in order, so that each endpoint is counted once (Shares); what    *)
(* was sent and belongs to no outcome yet is on the way (Counted).         *)
(***************************************************************************)
EXTENDS UdpProbes, FiniteSetTheorems, TLAPS

\* A worker that has an endpoint to check; one that was stopped keeps it.
Busy(w) == at[w] \in {"permit", "probing", "retrying", "threwAbort"}
Done == {e \in Endpoint : outcome[e] # "none"}
Silent == {e \in Endpoint : outcome[e] = "open-or-filtered"}

\* The datagrams whose endpoints have no outcome yet: the first, or the second, of a worker.
OnTheWay == {d \in Worker \X {1, 2} : Busy(d[1]) /\ d[2] <= probes[d[1]]}

\* TypeOK, but for the bound of the count, which follows from Counted.
Typed ==
    /\ now \in Nat
    /\ cursor \in 0..Addresses
    /\ at \in [Worker -> {"new", "permit", "probing", "retrying", "ended", "threwAbort"}]
    /\ endpoint \in [Worker -> Endpoint]
    /\ probes \in [Worker -> 0..(1 + Retries)]
    /\ alarm \in [Worker -> Nat]
    /\ nextPermit \in Nat
    /\ outcome \in [Endpoint -> Outcome \cup {"none"}]
    /\ completed \in Nat
    /\ transmissions \in Nat
    /\ aborted \in BOOLEAN
    /\ scan \in {"new", "running", "returned", "threwAbort"}
    /\ sent \in Seq(Nat)

\* How far the scan and its workers are.
Phases ==
    /\ scan = "new" => /\ cursor = 0 /\ transmissions = 0 /\ sent = <<>> /\ completed = 0 /\ nextPermit = 0
                       /\ \A w \in Worker : at[w] = "new" /\ endpoint[w] = <<w, 1>> /\ probes[w] = 0
                       /\ \A e \in Endpoint : outcome[e] = "none"
    /\ scan # "new" => \A w \in Worker : at[w] # "new"
    /\ scan = "returned" => \A w \in Worker : at[w] = "ended"
    /\ \A w \in Worker : /\ at[w] = "ended" => cursor = Addresses
                         /\ at[w] = "probing" => probes[w] >= 1
                         /\ at[w] \in {"permit", "retrying"} => probes[w] <= Retries

\* Each address is taken by one worker, which still has to check the ports from its own on;
\* no other endpoint of the addresses that were taken is without an outcome.
Shares ==
    /\ \A w \in Worker : Busy(w) => /\ endpoint[w][1] <= cursor
                                    /\ \A p \in endpoint[w][2]..Ports : outcome[<<endpoint[w][1], p>>] = "none"
    /\ \A v, w \in Worker : Busy(v) /\ Busy(w) /\ v # w => endpoint[v][1] # endpoint[w][1]
    /\ \A e \in Endpoint : /\ e[1] > cursor => outcome[e] = "none"
                           /\ outcome[e] = "none" /\ e[1] <= cursor =>
                                 \E w \in Worker : Busy(w) /\ endpoint[w][1] = e[1] /\ endpoint[w][2] <= e[2]

\* n times Retries.
Again(n) == IF Retries = 1 THEN n ELSE 0

\* What was sent went to the endpoints that are done, or is on the way.
Counted ==
    /\ completed = Cardinality(Done)
    /\ transmissions = Len(sent)
    /\ completed + Again(Cardinality(Silent)) + Cardinality(OnTheWay) <= transmissions
    /\ transmissions <= completed + Again(completed) + Cardinality(OnTheWay)

\* p is the permit of every datagram: no other has it and no worker waits for it.
Assigned(p) ==
    /\ \A i, j \in 1..Len(sent) : p[i] = p[j] => i = j
    /\ \A i \in 1..Len(sent) : /\ p[i] < nextPermit /\ p[i] <= sent[i] /\ sent[i] <= p[i] + Lateness
                               /\ \A w \in Worker : at[w] = "permit" => p[i] # alarm[w]
Permits ==
    /\ \A w \in Worker : at[w] = "permit" => alarm[w] < nextPermit /\ now <= alarm[w] + Lateness
    /\ \A v, w \in Worker : at[v] = "permit" /\ at[w] = "permit" /\ alarm[v] = alarm[w] => v = w
    /\ \A i \in 1..Len(sent) : sent[i] <= now /\ \A j \in 1..Len(sent) : i <= j => sent[i] <= sent[j]
    /\ \E p \in [1..Len(sent) -> Nat] : Assigned(p)

Inv == Typed /\ Phases /\ Shares /\ Counted /\ Permits
-----------------------------------------------------------------------------
\* There is a worker, and no more of them than addresses.
LEMMA Workers ==
    /\ 1 \in Worker /\ Worker \subseteq 1..Addresses
    /\ IsFiniteSet(Worker) /\ Cardinality(Worker) \in 1..Addresses /\ Worker = 1..Cardinality(Worker)
<1>. DEFINE least == Min({Concurrency, Addresses})
<1>1. least \in {Concurrency, Addresses} /\ least <= Addresses
  <2>1. \E x \in {Concurrency, Addresses} : \A y \in {Concurrency, Addresses} : x =< y
    <3>1. CASE Concurrency <= Addresses
      BY <3>1, ProbesAssumption
    <3>2. CASE ~(Concurrency <= Addresses)
      BY <3>2, ProbesAssumption
    <3>. QED
      BY <3>1, <3>2
  <2>. QED
    BY <2>1 DEF Min
<1>2. least \in 1..Addresses
  BY <1>1, ProbesAssumption
<1>3. Worker = 1..least
  BY DEF Worker
<1>. HIDE DEF least
<1>4. IsFiniteSet(Worker) /\ Cardinality(Worker) = least
  BY <1>2, <1>3, FS_Interval
<1>. QED
  BY <1>2, <1>3, <1>4, ProbesAssumption

\* The sets that are counted are finite.
LEMMA Finite ==
    /\ IsFiniteSet(Endpoint) /\ Cardinality(Endpoint) = Addresses * Ports
    /\ IsFiniteSet(Done) /\ Cardinality(Done) \in Nat /\ Cardinality(Done) <= Addresses * Ports
    /\ IsFiniteSet(Silent) /\ Cardinality(Silent) \in Nat
    /\ IsFiniteSet(OnTheWay) /\ Cardinality(OnTheWay) \in Nat
<1>1. /\ IsFiniteSet(1..Addresses) /\ Cardinality(1..Addresses) = Addresses
      /\ IsFiniteSet(1..Ports) /\ Cardinality(1..Ports) = Ports
  <2>1. Addresses \in Int /\ Ports \in Int /\ ~(1 > Addresses) /\ ~(1 > Ports) /\ Addresses - 1 + 1 = Addresses /\ Ports - 1 + 1 = Ports
    BY ProbesAssumption
  <2>2. 1 \in Int
    OBVIOUS
  <2>. QED
    BY <2>1, <2>2, FS_Interval
<1>2. IsFiniteSet(Endpoint) /\ Cardinality(Endpoint) = Addresses * Ports
  <2>. DEFINE A == 1..Addresses
              P == 1..Ports
  <2>1. IsFiniteSet(A) /\ Cardinality(A) = Addresses /\ IsFiniteSet(P) /\ Cardinality(P) = Ports
    BY <1>1
  <2>2. Endpoint = A \X P
    BY DEF Endpoint
  <2>. HIDE DEF A, P
  <2>3. IsFiniteSet(A \X P) /\ Cardinality(A \X P) = Cardinality(A) * Cardinality(P)
    BY <2>1, FS_Product
  <2>. QED
    BY <2>1, <2>2, <2>3
<1>3. Done \in SUBSET Endpoint /\ Silent \in SUBSET Endpoint
  BY DEF Done, Silent
<1>4. IsFiniteSet(Done) /\ Cardinality(Done) <= Addresses * Ports /\ IsFiniteSet(Silent)
  BY <1>2, <1>3, FS_Subset
<1>5. IsFiniteSet({1, 2})
  <2>1. IsFiniteSet({1} \cup {2})
    BY FS_Singleton, FS_AddElement
  <2>2. {1} \cup {2} = {1, 2}
    OBVIOUS
  <2>. QED
    BY <2>1, <2>2
<1>6. IsFiniteSet(Worker \X {1, 2})
  BY <1>5, Workers, FS_Product
<1>7. IsFiniteSet(OnTheWay)
  <2>1. OnTheWay \in SUBSET (Worker \X {1, 2})
    BY DEF OnTheWay
  <2>. QED
    BY <1>6, <2>1, FS_Subset
<1>. QED
  BY <1>2, <1>4, <1>7, FS_CardinalityType

\* Again is a product.
LEMMA AgainTimes == ASSUME NEW n \in Nat PROVE Again(n) \in Nat /\ Again(n) = n * Retries /\ n + Again(n) = n * (1 + Retries)
<1>1. CASE Retries = 0
  BY <1>1 DEF Again
<1>2. CASE Retries = 1
  BY <1>2 DEF Again
<1>. QED
  BY <1>1, <1>2, ProbesAssumption

\* What Append does to the history.
LEMMA Appended ==
    ASSUME NEW q \in Seq(Nat), NEW x \in Nat
    PROVE  /\ Append(q, x) \in Seq(Nat) /\ Len(q) \in Nat
           /\ Len(Append(q, x)) = Len(q) + 1 /\ 1..Len(Append(q, x)) = 1..Len(q) \cup {Len(q) + 1}
           /\ \A i \in 1..Len(q) : Append(q, x)[i] = q[i] /\ i < Len(q) + 1 /\ q[i] \in Nat
           /\ Append(q, x)[Len(q) + 1] = x
  OBVIOUS

\* The invariant holds before the scan.
LEMMA InvInit == Init => Inv
<1>. SUFFICES ASSUME Init PROVE Inv
  OBVIOUS
<1>1. \A w \in Worker : w \in 1..Addresses /\ <<w, 1>> \in Endpoint
  BY Workers, ProbesAssumption DEF Endpoint
<1>2. Typed
  <2>1. 0 \in 0..Addresses /\ 0 \in 0..(1 + Retries) /\ <<>> \in Seq(Nat)
    BY ProbesAssumption
  <2>. QED
    BY <1>1, <2>1 DEF Init, Typed
<1>3. Phases
  BY DEF Init, Phases
<1>4. Shares
  BY DEF Init, Shares, Busy, Endpoint
<1>5. Done = {} /\ Silent = {} /\ OnTheWay = {}
  BY DEF Init, Done, Silent, OnTheWay, Busy
<1>6. Counted
  BY <1>5, FS_EmptySet DEF Init, Counted, Again
<1>7. Permits
  <2>1. Len(sent) = 0 /\ \A w \in Worker : at[w] # "permit"
    BY DEF Init
  <2>2. [i \in 1..Len(sent) |-> 0] \in [1..Len(sent) -> Nat]
    OBVIOUS
  <2>3. Assigned([i \in 1..Len(sent) |-> 0])
    BY <2>1 DEF Assigned
  <2>4. \A i \in 1..Len(sent) : FALSE
    BY <2>1
  <2>. QED
    BY <2>1, <2>2, <2>3, <2>4 DEF Permits
<1>. QED
  BY <1>2, <1>3, <1>4, <1>6, <1>7 DEF Inv
-----------------------------------------------------------------------------
\* Permits stay as they are when nobody asks for one and nothing is sent.
LEMMA PermitsStay ==
    ASSUME Inv, UNCHANGED <<now, nextPermit, sent>>,
           \A w \in Worker : at'[w] = "permit" => at[w] = "permit" /\ alarm'[w] = alarm[w]
    PROVE  Permits'
<1>1. PICK p \in [1..Len(sent) -> Nat] : Assigned(p)
  BY DEF Inv, Permits
<1>2. Assigned(p)'
  BY <1>1 DEF Assigned
<1>. QED
  BY <1>2 DEF Inv, Permits

\* A datagram is sent on a permit that no other has, and for which no one waits then.
LEMMA PermitUsed ==
    ASSUME Inv, NEW p \in [1..Len(sent) -> Nat], Assigned(p), NEW permitAt \in Nat,
           permitAt <= now, now <= permitAt + Lateness, \A i \in 1..Len(sent) : p[i] # permitAt,
           nextPermit' \in Nat, nextPermit <= nextPermit', permitAt < nextPermit',
           now' = now, sent' = Append(sent, now),
           \A w \in Worker : at'[w] = "permit" => at[w] = "permit" /\ alarm'[w] = alarm[w] /\ alarm[w] # permitAt
    PROVE  Permits'
<1>1. /\ Len(sent) \in Nat /\ now \in Nat /\ Len(sent') = Len(sent) + 1 /\ 1..Len(sent') = 1..Len(sent) \cup {Len(sent) + 1}
      /\ \A i \in 1..Len(sent) : sent'[i] = sent[i] /\ i < Len(sent) + 1 /\ sent[i] \in Nat /\ i # Len(sent) + 1
      /\ sent'[Len(sent) + 1] = now /\ nextPermit \in Nat /\ alarm \in [Worker -> Nat]
  BY Appended DEF Inv, Typed
<1>2. PICK q \in [1..Len(sent') -> Nat] : q[Len(sent) + 1] = permitAt /\ \A i \in 1..Len(sent) : q[i] = p[i] /\ p[i] \in Nat
  <2>. DEFINE f == [i \in 1..Len(sent') |-> IF i = Len(sent) + 1 THEN permitAt ELSE p[i]]
  <2>1. f \in [1..Len(sent') -> Nat] /\ f[Len(sent) + 1] = permitAt /\ \A i \in 1..Len(sent) : f[i] = p[i] /\ p[i] \in Nat
    BY <1>1
  <2>. QED
    BY <2>1
<1>3. Assigned(q)'
  <2>1. \A i, j \in 1..Len(sent') : q[i] = q[j] => i = j
    BY <1>1, <1>2 DEF Assigned
  <2>2. ASSUME NEW i \in 1..Len(sent')
        PROVE  /\ q[i] < nextPermit' /\ q[i] <= sent'[i] /\ sent'[i] <= q[i] + Lateness
               /\ \A w \in Worker : at'[w] = "permit" => q[i] # alarm'[w]
    <3>1. CASE i = Len(sent) + 1
      BY <1>1, <1>2, <3>1
    <3>2. CASE i \in 1..Len(sent)
      BY <1>1, <1>2, <3>2 DEF Assigned
    <3>. QED
      BY <1>1, <3>1, <3>2
  <2>. QED
    BY <2>1, <2>2 DEF Assigned
<1>4. \A w \in Worker : at'[w] = "permit" => alarm'[w] < nextPermit' /\ now <= alarm'[w] + Lateness
  BY <1>1 DEF Inv, Permits
<1>5. \A i \in 1..Len(sent') : sent'[i] <= now /\ \A j \in 1..Len(sent') : i <= j => sent'[i] <= sent'[j]
  <2>1. \A i \in 1..Len(sent) : sent[i] <= now /\ \A j \in 1..Len(sent) : i <= j => sent[i] <= sent[j]
    BY DEF Inv, Permits
  <2>. QED
    BY <1>1, <2>1
<1>. QED
  BY <1>2, <1>3, <1>4, <1>5 DEF Inv, Permits

\* The larger of two numbers.
LEMMA MoreOf ==
    ASSUME NEW m \in Nat, NEW n \in Nat
    PROVE  Max({m, n}) \in {m, n} /\ Max({m, n}) >= m /\ Max({m, n}) >= n
<1>1. \E x \in {m, n} : \A y \in {m, n} : x >= y
  <2>1. CASE m >= n
    BY <2>1
  <2>2. CASE ~(m >= n)
    BY <2>2
  <2>. QED
    BY <2>1, <2>2
<1>. QED
  BY <1>1 DEF Max

\* A worker asks for a permit: it sends at once, or waits for a later interval.
LEMMA AskStep ==
    ASSUME Inv, NEW w \in Worker, at[w] \in {"probing", "retrying"}, NEW n \in 0..Retries, AskPermit(w, n), now' = now
    PROVE  /\ Permits' /\ nextPermit' \in Nat /\ alarm' \in [Worker -> Nat]
           /\ probes' \in [Worker -> 0..(1 + Retries)]
           /\ \/ Send(w, n)
              \/ /\ at' = [at EXCEPT ![w] = "permit"] /\ probes' = [probes EXCEPT ![w] = n]
                 /\ UNCHANGED <<transmissions, sent>>
<1>. DEFINE permitAt == Max({now, nextPermit})
<1>1. permitAt \in Nat /\ permitAt >= now /\ permitAt >= nextPermit /\ now \in Nat /\ nextPermit \in Nat
  BY MoreOf DEF Inv, Typed
<1>2. /\ nextPermit' = permitAt + 1 /\ alarm' = [alarm EXCEPT ![w] = permitAt]
      /\ permitAt = now => Send(w, n)
      /\ permitAt # now => /\ at' = [at EXCEPT ![w] = "permit"] /\ probes' = [probes EXCEPT ![w] = n]
                           /\ UNCHANGED <<transmissions, sent>>
  BY DEF AskPermit
<1>. HIDE DEF permitAt
<1>3. /\ at \in [Worker -> {"new", "permit", "probing", "retrying", "ended", "threwAbort"}]
      /\ alarm \in [Worker -> Nat] /\ probes \in [Worker -> 0..(1 + Retries)] /\ sent \in Seq(Nat)
  BY DEF Inv, Typed
<1>4. nextPermit' \in Nat /\ alarm' \in [Worker -> Nat] /\ alarm'[w] = permitAt
      /\ \A v \in Worker : v # w => alarm'[v] = alarm[v]
  BY <1>1, <1>2, <1>3
<1>5. PICK p \in [1..Len(sent) -> Nat] : Assigned(p)
  BY DEF Inv, Permits
<1>6. CASE permitAt = now
  <2>1. sent' = Append(sent, now) /\ at' = [at EXCEPT ![w] = "probing"] /\ probes' = [probes EXCEPT ![w] = n + 1]
    BY <1>2, <1>6 DEF Send
  <2>2. probes' \in [Worker -> 0..(1 + Retries)]
    BY <1>3, <2>1, ProbesAssumption
  <2>3. \A i \in 1..Len(sent) : p[i] # permitAt
    BY <1>1, <1>5 DEF Assigned
  <2>4. \A v \in Worker : at'[v] = "permit" => at[v] = "permit" /\ v # w
    BY <1>3, <2>1
  <2>5. \A v \in Worker : at'[v] = "permit" => at[v] = "permit" /\ alarm'[v] = alarm[v] /\ alarm[v] # permitAt
    BY <1>1, <1>3, <1>4, <2>4 DEF Inv, Permits
  <2>6. permitAt <= now /\ now <= permitAt + Lateness /\ nextPermit <= nextPermit' /\ permitAt < nextPermit'
    BY <1>1, <1>2, <1>6, ProbesAssumption
  <2>7. Permits'
    BY <1>1, <1>4, <1>5, <2>1, <2>3, <2>5, <2>6, PermitUsed
  <2>. QED
    BY <1>2, <1>4, <1>6, <2>2, <2>7
<1>7. CASE permitAt # now
  <2>1. UNCHANGED sent /\ at' = [at EXCEPT ![w] = "permit"] /\ probes' = [probes EXCEPT ![w] = n]
    BY <1>2, <1>7
  <2>2. probes' \in [Worker -> 0..(1 + Retries)]
    BY <1>3, <2>1, ProbesAssumption
  <2>3. \A v \in Worker : at'[v] = "permit" /\ v # w => at[v] = "permit" /\ alarm'[v] = alarm[v] /\ alarm[v] # permitAt
    BY <1>1, <1>3, <1>4, <2>1 DEF Inv, Permits
  <2>4. Assigned(p)'
    <3>1. \A i \in 1..Len(sent) : p[i] < nextPermit' /\ p[i] # permitAt
      BY <1>1, <1>2, <1>5 DEF Assigned
    <3>2. \A i \in 1..Len(sent), v \in Worker : at'[v] = "permit" => p[i] # alarm'[v]
      BY <1>4, <1>5, <2>3, <3>1 DEF Assigned
    <3>. QED
      BY <1>5, <2>1, <3>1, <3>2 DEF Assigned
  <2>5. \A v \in Worker : at'[v] = "permit" => alarm'[v] < nextPermit' /\ now <= alarm'[v] + Lateness
    <3>1. \A v \in Worker : at[v] = "permit" => alarm[v] \in Nat /\ alarm[v] < nextPermit /\ now <= alarm[v] + Lateness
      BY DEF Inv, Permits, Typed
    <3>2. ASSUME NEW v \in Worker, at'[v] = "permit", v # w PROVE alarm'[v] < nextPermit' /\ now <= alarm'[v] + Lateness
      BY <1>1, <1>2, <2>3, <3>1, <3>2
    <3>3. alarm'[w] < nextPermit' /\ now <= alarm'[w] + Lateness
      BY <1>1, <1>2, <1>3, <1>4, ProbesAssumption
    <3>. QED
      BY <3>2, <3>3
  <2>6. \A u, v \in Worker : at'[u] = "permit" /\ at'[v] = "permit" /\ alarm'[u] = alarm'[v] => u = v
    BY <1>4, <2>3 DEF Inv, Permits
  <2>7. Permits'
    BY <2>1, <2>4, <2>5, <2>6 DEF Inv, Permits
  <2>. QED
    BY <1>2, <1>4, <1>7, <2>2, <2>7
<1>. QED
  BY <1>6, <1>7
-----------------------------------------------------------------------------
\* An endpoint is the pair of its address and its port.
LEMMA Pairs ==
    ASSUME Inv, NEW w \in Worker
    PROVE  /\ endpoint[w] = <<endpoint[w][1], endpoint[w][2]>> /\ endpoint[w] \in Endpoint
           /\ endpoint[w][1] \in 1..Addresses /\ endpoint[w][2] \in 1..Ports
           /\ probes[w] \in 0..(1 + Retries) /\ probes[w] \in {0, 1, 2} /\ (probes[w] = 2 => Retries = 1)
<1>1. endpoint[w] \in (1..Addresses) \X (1..Ports) /\ probes[w] \in 0..(1 + Retries)
  BY DEF Inv, Typed, Endpoint
<1>2. probes[w] \in {0, 1, 2} /\ (probes[w] = 2 => Retries = 1)
  BY <1>1, ProbesAssumption
<1>. QED
  BY <1>1, <1>2 DEF Endpoint

\* A worker sends one more datagram to its endpoint.
LEMMA OneMore ==
    ASSUME Inv, NEW w \in Worker, Busy(w), probes[w] \in 0..Retries, probes' = [probes EXCEPT ![w] = probes[w] + 1],
           \A v \in Worker : Busy(v)' <=> Busy(v)
    PROVE  Cardinality(OnTheWay') = Cardinality(OnTheWay) + 1
<1>. DEFINE d == <<w, probes[w] + 1>>
<1>1. \A v \in Worker : probes'[v] = IF v = w THEN probes[w] + 1 ELSE probes[v]
  BY DEF Inv, Typed
<1>2. probes[w] \in {0, 1}
  BY ProbesAssumption
<1>3. d \in Worker \X {1, 2} /\ d \notin OnTheWay
  BY <1>2 DEF OnTheWay
<1>4. OnTheWay' = OnTheWay \cup {d}
  <2>1. ASSUME NEW v \in Worker, NEW k \in {1, 2} PROVE <<v, k>> \in OnTheWay' <=> <<v, k>> \in OnTheWay \cup {d}
    <3>1. CASE v = w
      BY <1>1, <1>2, <3>1 DEF OnTheWay
    <3>2. CASE v # w
      BY <1>1, <3>2 DEF OnTheWay
    <3>. QED
      BY <3>1, <3>2
  <2>2. \A x \in OnTheWay' \cup OnTheWay \cup {d} : \E v \in Worker, k \in {1, 2} : x = <<v, k>>
    BY <1>3 DEF OnTheWay
  <2>. HIDE DEF d
  <2>3. ASSUME NEW x PROVE x \in OnTheWay' <=> x \in OnTheWay \cup {d}
    <3>1. CASE x \in OnTheWay' \cup OnTheWay \cup {d}
      <4>1. PICK v \in Worker, k \in {1, 2} : x = <<v, k>>
        BY <2>2, <3>1
      <4>. QED
        BY <2>1, <4>1
    <3>. QED
      BY <3>1
  <2>. QED
    BY <2>3
<1>. QED
  BY <1>3, <1>4, Finite, FS_AddElement

\* A worker goes on with its endpoint, or is stopped.
LEMMA GoesOn ==
    ASSUME Inv, NEW w \in Worker, at[w] \in {"permit", "probing", "retrying"},
           NEW p \in {"permit", "probing", "retrying", "threwAbort"}, at' = [at EXCEPT ![w] = p],
           UNCHANGED <<now, cursor, endpoint, outcome, completed, aborted>>,
           scan' \in {scan, "threwAbort"}, alarm' \in [Worker -> Nat], nextPermit' \in Nat, Permits',
           \/ UNCHANGED <<probes, transmissions, sent>>
           \/ probes[w] \in 0..Retries /\ Send(w, probes[w]),
           p = "probing" => probes'[w] >= 1,
           p \in {"permit", "retrying"} => probes'[w] <= Retries
    PROVE  Inv'
<1>1. \A v \in Worker : at'[v] = IF v = w THEN p ELSE at[v]
  BY DEF Inv, Typed
<1>2. /\ scan # "new" /\ scan # "returned" /\ scan' # "new" /\ scan' # "returned"
      /\ scan' \in {"new", "running", "returned", "threwAbort"}
  BY DEF Inv, Typed, Phases
<1>3. \A v \in Worker : Busy(v)' <=> Busy(v)
  BY <1>1 DEF Busy
<1>4. Shares'
  BY <1>3 DEF Inv, Shares
<1>5. UNCHANGED <<Done, Silent>>
  BY DEF Done, Silent
<1>6. at' \in [Worker -> {"new", "permit", "probing", "retrying", "ended", "threwAbort"}]
  BY DEF Inv, Typed
<1>7. CASE UNCHANGED <<probes, transmissions, sent>>
  <2>1. OnTheWay' = OnTheWay
    BY <1>3, <1>7 DEF OnTheWay
  <2>2. Counted'
    <3>1. Again(completed') = Again(completed) /\ Again(Cardinality(Silent')) = Again(Cardinality(Silent))
      BY <1>5
    <3>. QED
      BY <1>5, <1>7, <2>1, <3>1 DEF Inv, Counted
  <2>3. Typed'
    BY <1>2, <1>6, <1>7 DEF Inv, Typed
  <2>4. Phases'
    BY <1>1, <1>2, <1>7 DEF Inv, Phases
  <2>. QED
    BY <1>4, <2>2, <2>3, <2>4 DEF Inv
<1>8. CASE probes[w] \in 0..Retries /\ Send(w, probes[w])
  <2>1. /\ probes' = [probes EXCEPT ![w] = probes[w] + 1] /\ transmissions' = transmissions + 1
        /\ sent' = Append(sent, now)
    BY <1>8 DEF Send
  <2>2. Len(sent') = Len(sent) + 1 /\ sent' \in Seq(Nat) /\ Len(sent) \in Nat
    BY <2>1, Appended DEF Inv, Typed
  <2>3. Cardinality(OnTheWay') = Cardinality(OnTheWay) + 1
    BY <1>3, <1>8, <2>1, OneMore DEF Busy
  <2>4. probes' \in [Worker -> 0..(1 + Retries)]
    <3>1. probes[w] + 1 \in 0..(1 + Retries)
      BY <1>8, ProbesAssumption
    <3>. QED
      BY <2>1, <3>1 DEF Inv, Typed
  <2>5. Typed'
    BY <1>2, <1>6, <2>1, <2>2, <2>4 DEF Inv, Typed
  <2>6. \A v \in Worker : v # w => probes'[v] = probes[v]
    BY <2>1 DEF Inv, Typed
  <2>7. Phases'
    BY <1>1, <1>2, <2>6 DEF Inv, Phases
  <2>8. Counted'
    <3>1. Cardinality(OnTheWay) \in Nat /\ Cardinality(Silent) \in Nat /\ completed \in Nat /\ transmissions \in Nat
      BY Finite DEF Inv, Typed
    <3>2. Again(completed) \in Nat /\ Again(Cardinality(Silent)) \in Nat
      BY <3>1, AgainTimes
    <3>3. Again(completed') = Again(completed) /\ Again(Cardinality(Silent')) = Again(Cardinality(Silent))
      BY <1>5
    <3>4. completed' = Cardinality(Done') /\ transmissions' = Len(sent')
      BY <1>5, <2>1, <2>2 DEF Inv, Counted
    <3>5. /\ completed + Again(Cardinality(Silent)) + Cardinality(OnTheWay) <= transmissions
          /\ transmissions <= completed + Again(completed) + Cardinality(OnTheWay)
      BY DEF Inv, Counted
    <3>6. /\ completed' = completed /\ transmissions' = transmissions + 1
          /\ Cardinality(OnTheWay') = Cardinality(OnTheWay) + 1
      BY <1>5, <2>1, <2>3
    <3>7. completed' + Again(Cardinality(Silent')) + Cardinality(OnTheWay') <= transmissions'
      BY ONLY <3>1, <3>2, <3>3, <3>5, <3>6
    <3>8. transmissions' <= completed' + Again(completed') + Cardinality(OnTheWay')
      BY ONLY <3>1, <3>2, <3>3, <3>5, <3>6
    <3>. QED
      BY <3>4, <3>7, <3>8 DEF Counted
  <2>. QED
    BY <1>4, <2>5, <2>7, <2>8 DEF Inv
<1>. QED
  BY <1>7, <1>8

\* The timers of a worker, and the timeouts of its probes.
LEMMA TimerStep == ASSUME Inv, NEW w \in Worker, PermitComes(w) \/ TryAgain(w) \/ DelayEnds(w) \/ Stop(w) PROVE Inv'
<1>1. /\ at \in [Worker -> {"new", "permit", "probing", "retrying", "ended", "threwAbort"}]
      /\ alarm \in [Worker -> Nat] /\ nextPermit \in Nat /\ now \in Nat /\ probes[w] \in 0..(1 + Retries)
      /\ probes \in [Worker -> 0..(1 + Retries)]
      /\ at[w] \in {"permit", "retrying"} => probes[w] \in 0..Retries
  BY Pairs, ProbesAssumption DEF Inv, Typed, Phases
<1>2. CASE PermitComes(w)
  <2>1. /\ at[w] = "permit" /\ now >= alarm[w] /\ Send(w, probes[w])
        /\ UNCHANGED <<now, cursor, endpoint, alarm, nextPermit, outcome, completed, aborted, scan>>
    BY <1>2 DEF PermitComes
  <2>2. PICK p \in [1..Len(sent) -> Nat] : Assigned(p)
    BY DEF Inv, Permits
  <2>3. /\ at' = [at EXCEPT ![w] = "probing"] /\ sent' = Append(sent, now)
        /\ probes' = [probes EXCEPT ![w] = probes[w] + 1]
    BY <2>1 DEF Send
  <2>4. alarm[w] \in Nat /\ alarm[w] <= now /\ now <= alarm[w] + Lateness /\ alarm[w] < nextPermit'
    BY <1>1, <2>1 DEF Inv, Permits
  <2>5. \A i \in 1..Len(sent) : p[i] # alarm[w]
    BY <2>1, <2>2 DEF Assigned
  <2>6. \A v \in Worker : at'[v] = "permit" => at[v] = "permit" /\ alarm'[v] = alarm[v] /\ alarm[v] # alarm[w]
    BY <1>1, <2>1, <2>3 DEF Inv, Permits
  <2>7. nextPermit' \in Nat /\ nextPermit <= nextPermit'
    BY <1>1, <2>1
  <2>8. Permits'
    BY <2>1, <2>2, <2>3, <2>4, <2>5, <2>6, <2>7, PermitUsed
  <2>. DEFINE place == "probing"
  <2>9. /\ probes'[w] >= 1 /\ probes[w] \in 0..Retries /\ place \in {"permit", "probing", "retrying", "threwAbort"}
        /\ at' = [at EXCEPT ![w] = place] /\ (place \in {"permit", "retrying"} => probes'[w] <= Retries)
        /\ at[w] \in {"permit", "probing", "retrying"} /\ scan' \in {scan, "threwAbort"}
        /\ alarm' \in [Worker -> Nat] /\ nextPermit' \in Nat
    BY <1>1, <2>1, <2>3
  <2>. HIDE DEF place
  <2>. QED
    BY <2>1, <2>8, <2>9, GoesOn
<1>3. CASE TryAgain(w)
  <2>1. /\ at[w] = "probing" /\ probes[w] <= Retries /\ at' = [at EXCEPT ![w] = "retrying"]
        /\ alarm' = [alarm EXCEPT ![w] = now + RetryDelay]
        /\ UNCHANGED <<now, cursor, endpoint, probes, nextPermit, outcome, completed, transmissions, aborted, scan, sent>>
    BY <1>3 DEF TryAgain
  <2>2. alarm' \in [Worker -> Nat]
    BY <1>1, <2>1, ProbesAssumption
  <2>3. Permits'
    <3>1. \A v \in Worker : at'[v] = "permit" => at[v] = "permit" /\ alarm'[v] = alarm[v]
      BY <1>1, <2>1
    <3>. QED
      BY <2>1, <3>1, PermitsStay
  <2>. QED
    BY <1>1, <2>1, <2>2, <2>3, GoesOn
<1>4. CASE DelayEnds(w)
  <2>1. /\ at[w] = "retrying" /\ AskPermit(w, probes[w]) /\ probes[w] \in 0..Retries
        /\ UNCHANGED <<now, cursor, endpoint, outcome, completed, aborted, scan>>
    BY <1>1, <1>4 DEF DelayEnds
  <2>2. /\ Permits' /\ nextPermit' \in Nat /\ alarm' \in [Worker -> Nat]
        /\ \/ Send(w, probes[w])
           \/ /\ at' = [at EXCEPT ![w] = "permit"] /\ probes' = [probes EXCEPT ![w] = probes[w]]
              /\ UNCHANGED <<transmissions, sent>>
    BY <2>1, AskStep
  <2>3. CASE Send(w, probes[w])
    <3>. DEFINE place == "probing"
    <3>1. /\ place \in {"permit", "probing", "retrying", "threwAbort"} /\ at' = [at EXCEPT ![w] = place] /\ probes'[w] >= 1
          /\ (place \in {"permit", "retrying"} => probes'[w] <= Retries) /\ scan' \in {scan, "threwAbort"}
          /\ at[w] \in {"permit", "probing", "retrying"}
      BY <1>1, <2>1, <2>3 DEF Send
    <3>. HIDE DEF place
    <3>. QED
      BY <2>1, <2>2, <2>3, <3>1, GoesOn
  <2>4. CASE at' = [at EXCEPT ![w] = "permit"] /\ probes' = [probes EXCEPT ![w] = probes[w]] /\ UNCHANGED <<transmissions, sent>>
    <3>1. probes' = probes /\ probes'[w] <= Retries
      BY <1>1, <2>1, <2>4
    <3>. QED
      BY <2>1, <2>2, <2>4, <3>1, GoesOn
  <2>. QED
    BY <2>2, <2>3, <2>4
<1>5. CASE Stop(w)
  <2>1. /\ at[w] \in {"permit", "retrying", "probing"} /\ at' = [at EXCEPT ![w] = "threwAbort"]
        /\ scan' \in {scan, "threwAbort"}
        /\ UNCHANGED <<now, cursor, endpoint, probes, alarm, nextPermit, outcome, completed, transmissions, aborted, sent>>
    BY <1>5 DEF Stop
  <2>2. Permits'
    <3>1. \A v \in Worker : at'[v] = "permit" => at[v] = "permit" /\ alarm'[v] = alarm[v]
      BY <1>1, <2>1
    <3>. QED
      BY <2>1, <3>1, PermitsStay
  <2>. QED
    BY <1>1, <2>1, <2>2, GoesOn
<1>. QED
  BY <1>2, <1>3, <1>4, <1>5
-----------------------------------------------------------------------------
\* The endpoint of a worker gets its outcome: it is counted as one more that is done, and
\* what was sent to it is on the way no longer.
LEMMA OutcomeCounted ==
    ASSUME Inv, NEW w \in Worker, at[w] = "probing", NEW o \in Outcome, o = "open-or-filtered" => probes[w] > Retries,
           outcome' = [outcome EXCEPT ![endpoint[w]] = o]
    PROVE  /\ outcome' \in [Endpoint -> Outcome \cup {"none"}]
           /\ \A e \in Endpoint : outcome'[e] = IF e = endpoint[w] THEN o ELSE outcome[e]
           /\ Cardinality(Done') = Cardinality(Done) + 1
           /\ \E n \in 0..1 : /\ Cardinality(Silent') = Cardinality(Silent) + n
                              /\ n = 1 => probes[w] = 1 + Retries
           /\ LET rest == OnTheWay \ {<<w, 1>>, <<w, 2>>}
              IN  IsFiniteSet(rest) /\ Cardinality(rest) \in Nat /\ Cardinality(rest) = Cardinality(OnTheWay) - probes[w]
<1>. DEFINE e == endpoint[w]
            rest == OnTheWay \ {<<w, 1>>, <<w, 2>>}
<1>1. e \in Endpoint /\ probes[w] \in {1, 2} /\ probes[w] \in 0..(1 + Retries) /\ e = <<e[1], e[2]>> /\ e[2] \in e[2]..Ports
  <2>1. e \in Endpoint /\ e = <<e[1], e[2]>> /\ e[2] \in 1..Ports /\ probes[w] \in 0..(1 + Retries) /\ probes[w] \in {0, 1, 2}
    BY Pairs
  <2>2. probes[w] >= 1
    BY DEF Inv, Phases
  <2>. HIDE DEF e
  <2>. QED
    BY <2>1, <2>2, ProbesAssumption
<1>2. outcome[e] = "none"
  <2>1. \A q \in e[2]..Ports : outcome[<<e[1], q>>] = "none"
    BY DEF Inv, Shares, Busy
  <2>. HIDE DEF e
  <2>. QED
    BY <1>1, <2>1
<1>3. o # "none"
  BY DEF Outcome
<1>4. outcome \in [Endpoint -> Outcome \cup {"none"}]
  BY DEF Inv, Typed
<1>. HIDE DEF e
<1>5. outcome' = [outcome EXCEPT ![e] = o]
  BY DEF e
<1>6. /\ outcome' \in [Endpoint -> Outcome \cup {"none"}]
      /\ \A x \in Endpoint : outcome'[x] = IF x = e THEN o ELSE outcome[x]
  BY <1>1, <1>4, <1>5
<1>7. Cardinality(Done') = Cardinality(Done) + 1
  <2>1. Done' = Done \cup {e} /\ e \notin Done
    BY <1>1, <1>2, <1>3, <1>6 DEF Done
  <2>. QED
    BY <2>1, Finite, FS_AddElement
<1>8. \E n \in 0..1 : Cardinality(Silent') = Cardinality(Silent) + n /\ (n = 1 => probes[w] = 1 + Retries)
  <2>1. CASE o = "open-or-filtered"
    <3>1. Silent' = Silent \cup {e} /\ e \notin Silent
      BY <1>1, <1>2, <1>6, <2>1 DEF Silent
    <3>2. Cardinality(Silent') = Cardinality(Silent) + 1
      BY <3>1, Finite, FS_AddElement
    <3>3. probes[w] = 1 + Retries
      BY <1>1, <2>1, ProbesAssumption
    <3>. QED
      BY <3>2, <3>3
  <2>2. CASE o # "open-or-filtered"
    <3>1. Silent' = Silent
      BY <1>1, <1>2, <1>6, <2>2 DEF Silent
    <3>2. Cardinality(Silent') = Cardinality(Silent) + 0
      BY <3>1, Finite
    <3>. QED
      BY <3>2
  <2>. QED
    BY <2>1, <2>2
<1>9. IsFiniteSet(rest) /\ Cardinality(rest) = Cardinality(OnTheWay) - probes[w]
  <2>1. <<w, 1>> \in OnTheWay /\ (<<w, 2>> \in OnTheWay <=> probes[w] = 2)
    BY <1>1 DEF OnTheWay, Busy
  <2>2. /\ IsFiniteSet(OnTheWay \ {<<w, 1>>})
        /\ Cardinality(OnTheWay \ {<<w, 1>>}) = Cardinality(OnTheWay) - 1
    BY <2>1, Finite, FS_RemoveElement
  <2>. DEFINE fewer == OnTheWay \ {<<w, 1>>}
  <2>3. /\ IsFiniteSet(fewer \ {<<w, 2>>})
        /\ Cardinality(fewer \ {<<w, 2>>}) = IF <<w, 2>> \in fewer THEN Cardinality(fewer) - 1 ELSE Cardinality(fewer)
    BY <2>2, FS_RemoveElement
  <2>4. <<w, 2>> \in fewer <=> probes[w] = 2
    BY <2>1
  <2>5. rest = fewer \ {<<w, 2>>}
    OBVIOUS
  <2>6. Cardinality(OnTheWay) \in Nat
    BY Finite
  <2>. HIDE DEF fewer, rest
  <2>7. Cardinality(fewer) = Cardinality(OnTheWay) - 1
    BY <2>2 DEF fewer
  <2>. QED
    BY <1>1, <2>3, <2>4, <2>5, <2>6, <2>7
<1>10. Cardinality(rest) \in Nat
  BY <1>9, FS_CardinalityType
<1>. HIDE DEF rest
<1>11. IsFiniteSet(rest) /\ Cardinality(rest) \in Nat /\ Cardinality(rest) = Cardinality(OnTheWay) - probes[w]
  BY <1>9, <1>10
<1>12. \A x \in Endpoint : outcome'[x] = IF x = endpoint[w] THEN o ELSE outcome[x]
  BY <1>6 DEF e
<1>. QED
  BY <1>6, <1>7, <1>8, <1>11, <1>12 DEF rest

\* Where a worker goes behind an outcome: to the next port, to the next address, or home.
LEMMA NextShare ==
    ASSUME Inv, NEW w \in Worker, at[w] = "probing",
           outcome' \in [Endpoint -> Outcome \cup {"none"}], NEW o \in Outcome,
           \A e \in Endpoint : outcome'[e] = IF e = endpoint[w] THEN o ELSE outcome[e],
           \A v \in Worker : v # w => (Busy(v)' <=> Busy(v)) /\ endpoint'[v] = endpoint[v],
           \/ /\ HasNext(w) /\ Busy(w)' /\ endpoint'[w] = NextEndpoint(w)
              /\ cursor' = Max({cursor, NextEndpoint(w)[1]})
           \/ ~HasNext(w) /\ ~Busy(w)' /\ UNCHANGED <<endpoint, cursor>>
    PROVE  /\ Shares' /\ cursor' \in 0..Addresses /\ endpoint'[w] \in Endpoint
           /\ (~HasNext(w) => cursor = Addresses) /\ (cursor' # cursor => cursor # Addresses)
<1>. DEFINE a == endpoint[w][1]
            p == endpoint[w][2]
<1>1. endpoint[w] = <<a, p>> /\ a \in 1..Addresses /\ p \in 1..Ports /\ cursor \in 0..Addresses /\ Addresses \in Nat /\ Ports \in Nat
  BY Pairs, ProbesAssumption DEF Inv, Typed
<1>2. a <= cursor /\ Busy(w)
  BY DEF Inv, Shares, Busy
<1>3. o # "none"
  BY DEF Outcome
<1>4. \A v \in Worker : Busy(v) /\ v # w => endpoint[v][1] # a
  BY <1>2 DEF Inv, Shares
<1>5. \A e \in Endpoint : e = <<e[1], e[2]>> /\ e[1] \in 1..Addresses /\ e[2] \in 1..Ports
  BY DEF Endpoint
<1>6. \A x \in 1..Addresses, q \in 1..Ports : <<x, q>> \in Endpoint /\ <<x, q>>[1] = x /\ <<x, q>>[2] = q
  BY DEF Endpoint
<1>. HIDE DEF a, p
<1>7. \/ HasNext(w) /\ endpoint'[w] = <<a, p + 1>> /\ p < Ports /\ cursor' = cursor /\ Busy(w)'
      \/ HasNext(w) /\ endpoint'[w] = <<cursor + 1, 1>> /\ p = Ports /\ cursor < Addresses /\ cursor' = cursor + 1 /\ Busy(w)'
      \/ ~HasNext(w) /\ p = Ports /\ cursor = Addresses /\ cursor' = cursor /\ ~Busy(w)' /\ endpoint'[w] = endpoint[w]
  <2>1. CASE HasNext(w) /\ p < Ports
    <3>1. NextEndpoint(w) = <<a, p + 1>>
      BY <2>1 DEF NextEndpoint, a, p
    <3>2. Max({cursor, a}) = cursor
      BY <1>1, <1>2, MoreOf
    <3>. QED
      BY <2>1, <3>1, <3>2
  <2>2. CASE HasNext(w) /\ ~(p < Ports)
    <3>1. NextEndpoint(w) = <<cursor + 1, 1>> /\ cursor < Addresses
      BY <2>2 DEF NextEndpoint, HasNext, p
    <3>2. Max({cursor, cursor + 1}) = cursor + 1
      <4>1. cursor \in Nat /\ cursor + 1 \in Nat
        BY <1>1
      <4>2. Max({cursor, cursor + 1}) \in {cursor, cursor + 1} /\ Max({cursor, cursor + 1}) >= cursor + 1
        BY <4>1, MoreOf
      <4>. QED
        BY <4>1, <4>2
    <3>. QED
      BY <1>1, <2>2, <3>1, <3>2
  <2>3. CASE ~HasNext(w)
    BY <1>1, <2>3 DEF HasNext, p
  <2>. QED
    BY <2>1, <2>2, <2>3
<1>8. cursor' \in 0..Addresses /\ cursor <= cursor' /\ cursor' \in Int
  BY <1>1, <1>7
<1>9. endpoint'[w] \in Endpoint
  BY <1>1, <1>6, <1>7
<1>10. ASSUME NEW v \in Worker, Busy(v)'
       PROVE  /\ endpoint'[v][1] <= cursor'
              /\ \A q \in endpoint'[v][2]..Ports : outcome'[<<endpoint'[v][1], q>>] = "none"
  <2>1. CASE v # w
    <3>1. Busy(v) /\ endpoint'[v] = endpoint[v] /\ endpoint[v][1] # a
      BY <1>4, <1>10, <2>1
    <3>2. endpoint[v][1] \in 1..Addresses /\ endpoint[v][2] \in 1..Ports
      BY Pairs
    <3>3. endpoint[v][1] <= cursor /\ \A q \in endpoint[v][2]..Ports : outcome[<<endpoint[v][1], q>>] = "none"
      BY <3>1 DEF Inv, Shares
    <3>4. ASSUME NEW q \in endpoint[v][2]..Ports PROVE outcome'[<<endpoint[v][1], q>>] = "none"
      <4>1. <<endpoint[v][1], q>> \in Endpoint /\ <<endpoint[v][1], q>>[1] = endpoint[v][1]
        BY <1>1, <1>6, <3>2
      <4>2. <<endpoint[v][1], q>> # endpoint[w]
        BY <1>1, <3>1, <4>1
      <4>. QED
        BY <3>3, <4>1, <4>2
    <3>. QED
      BY <1>1, <1>8, <3>1, <3>2, <3>3, <3>4
  <2>2. CASE v = w /\ endpoint'[w] = <<a, p + 1>> /\ p < Ports
    <3>1. \A q \in (p + 1)..Ports : outcome[<<a, q>>] = "none" /\ <<a, q>> \in Endpoint /\ <<a, q>> # <<a, p>>
      <4>1. \A q \in p..Ports : outcome[<<a, q>>] = "none"
        BY <1>2 DEF Inv, Shares, a, p
      <4>. QED
        BY <1>1, <1>6, <4>1
    <3>2. \A q \in (p + 1)..Ports : outcome'[<<a, q>>] = "none"
      BY <1>1, <3>1
    <3>. QED
      BY <1>1, <1>2, <1>8, <2>2, <3>2
  <2>3. CASE v = w /\ endpoint'[w] = <<cursor + 1, 1>> /\ cursor < Addresses /\ cursor' = cursor + 1
    <3>1. \A q \in 1..Ports : outcome[<<cursor + 1, q>>] = "none" /\ <<cursor + 1, q>> \in Endpoint /\ cursor + 1 # a
      <4>1. cursor + 1 \in 1..Addresses /\ cursor + 1 > cursor
        BY <1>1, <2>3
      <4>2. \A q \in 1..Ports : <<cursor + 1, q>> \in Endpoint /\ <<cursor + 1, q>>[1] > cursor
        BY <1>6, <4>1
      <4>. QED
        BY <1>1, <1>2, <4>2 DEF Inv, Shares
    <3>2. \A q \in 1..Ports : outcome'[<<cursor + 1, q>>] = "none"
      BY <1>1, <3>1
    <3>. QED
      BY <1>1, <2>3, <3>2
  <2>. QED
    BY <1>7, <1>10, <2>1, <2>2, <2>3
<1>11. ASSUME NEW u \in Worker, NEW v \in Worker, Busy(u)', Busy(v)', u # v PROVE endpoint'[u][1] # endpoint'[v][1]
  <2>1. ASSUME NEW x \in Worker, Busy(x)', x # w, Busy(w)' PROVE endpoint'[x][1] # endpoint'[w][1]
    <3>1. endpoint'[x] = endpoint[x] /\ endpoint[x][1] # a /\ endpoint[x][1] <= cursor /\ endpoint[x][1] \in Int
      BY <1>4, <2>1, Pairs DEF Inv, Shares
    <3>. QED
      BY <1>1, <1>7, <2>1, <3>1
  <2>2. CASE u # w /\ v # w
    BY <1>11, <2>2 DEF Inv, Shares
  <2>. QED
    BY <1>11, <2>1, <2>2
<1>12. ASSUME NEW e \in Endpoint, e[1] > cursor' PROVE outcome'[e] = "none"
  BY <1>1, <1>2, <1>5, <1>8, <1>12 DEF Inv, Shares, a
<1>13. ASSUME NEW e \in Endpoint, outcome'[e] = "none", e[1] <= cursor'
       PROVE  \E v \in Worker : Busy(v)' /\ endpoint'[v][1] = e[1] /\ endpoint'[v][2] <= e[2]
  <2>1. e # <<a, p>> /\ outcome[e] = "none" /\ e = <<e[1], e[2]>> /\ e[1] \in 1..Addresses /\ e[2] \in 1..Ports
    BY <1>1, <1>3, <1>5, <1>13
  <2>2. CASE e[1] <= cursor
    <3>1. PICK v \in Worker : Busy(v) /\ endpoint[v][1] = e[1] /\ endpoint[v][2] <= e[2]
      BY <2>1, <2>2 DEF Inv, Shares
    <3>2. CASE v # w
      BY <3>1, <3>2
    <3>3. CASE v = w
      <4>1. e[1] = a /\ p <= e[2] /\ e[2] # p
        BY <2>1, <3>1, <3>3 DEF a, p
      <4>2. p + 1 <= e[2]
        BY <1>1, <2>1, <4>1
      <4>. QED
        BY <1>1, <1>7, <2>1, <4>1, <4>2
    <3>. QED
      BY <3>2, <3>3
  <2>3. CASE ~(e[1] <= cursor)
    <3>1. e[1] = cursor + 1 /\ cursor' = cursor + 1
      BY <1>1, <1>7, <1>13, <2>1, <2>3
    <3>2. Busy(w)' /\ endpoint'[w] = <<cursor + 1, 1>>
      BY <1>1, <1>7, <3>1
    <3>. QED
      BY <2>1, <3>1, <3>2
  <2>. QED
    BY <2>2, <2>3
<1>14. Shares'
  BY <1>10, <1>11, <1>12, <1>13 DEF Shares
<1>. QED
  BY <1>1, <1>7, <1>8, <1>9, <1>14

\* What is on the way when w has left its endpoint: a first datagram to the next one, or nothing.
LEMMA NextOnTheWay ==
    ASSUME Inv, NEW w \in Worker, \A v \in Worker : v # w => (Busy(v)' <=> Busy(v)) /\ probes'[v] = probes[v],
           NEW k \in 0..1, k = 1 => Busy(w)' /\ probes'[w] = 1, k = 0 => ~Busy(w)' \/ probes'[w] = 0,
           NEW rest, rest = OnTheWay \ {<<w, 1>>, <<w, 2>>}, IsFiniteSet(rest), Cardinality(rest) \in Nat
    PROVE  Cardinality(OnTheWay') = Cardinality(rest) + k
<1>1. ASSUME NEW v \in Worker, NEW i \in {1, 2}
      PROVE  /\ v = w => (<<v, i>> \in OnTheWay' <=> k = 1 /\ i = 1)
             /\ v # w => (<<v, i>> \in OnTheWay' <=> <<v, i>> \in rest)
  <2>1. CASE v = w
    BY <2>1 DEF OnTheWay
  <2>2. CASE v # w
    BY <2>2 DEF OnTheWay
  <2>. QED
    BY <2>1, <2>2
<1>2. <<w, 1>> \notin rest /\ <<w, 2>> \notin rest
  OBVIOUS
<1>3. \A x \in OnTheWay' \cup rest : \E v \in Worker, i \in {1, 2} : x = <<v, i>>
  BY DEF OnTheWay
<1>4. CASE k = 1
  <2>1. ASSUME NEW x PROVE x \in OnTheWay' <=> x \in rest \cup {<<w, 1>>}
    <3>1. CASE x \in OnTheWay' \cup rest
      <4>1. PICK v \in Worker, i \in {1, 2} : x = <<v, i>>
        BY <1>3, <3>1
      <4>. QED
        BY <1>1, <1>2, <1>4, <4>1
    <3>2. CASE x \notin OnTheWay' \cup rest
      BY <1>1, <1>4, <3>2
    <3>. QED
      BY <3>1, <3>2
  <2>2. OnTheWay' = rest \cup {<<w, 1>>}
    BY <2>1
  <2>. QED
    BY <1>2, <1>4, <2>2, FS_AddElement
<1>5. CASE k = 0
  <2>1. ASSUME NEW x PROVE x \in OnTheWay' <=> x \in rest
    <3>1. CASE x \in OnTheWay' \cup rest
      <4>1. PICK v \in Worker, i \in {1, 2} : x = <<v, i>>
        BY <1>3, <3>1
      <4>2. <<v, i>> \in OnTheWay' <=> v # w /\ <<v, i>> \in rest
        <5>1. k # 1
          BY <1>5
        <5>. QED
          BY <1>1, <5>1
      <4>3. v = w => <<v, i>> \notin rest
        <5>1. i = 1 \/ i = 2
          OBVIOUS
        <5>. QED
          BY <1>2, <5>1
      <4>. QED
        BY <4>1, <4>2, <4>3
    <3>. QED
      BY <3>1
  <2>2. OnTheWay' = rest
    BY <2>1
  <2>. QED
    BY <1>5, <2>2
<1>. QED
  BY <1>4, <1>5

\* The endpoint of a worker gets its outcome, and the worker goes on to the next one or ends.
LEMMA CheckedStep == ASSUME Inv, NEW w \in Worker, NEW o \in Outcome, Checked(w, o) PROVE Inv'
<1>1. /\ at[w] = "probing" /\ (o = "open-or-filtered" => probes[w] > Retries)
      /\ outcome' = [outcome EXCEPT ![endpoint[w]] = o] /\ completed' = completed + 1
      /\ UNCHANGED <<now, aborted>>
  BY DEF Checked
<1>2. /\ at \in [Worker -> {"new", "permit", "probing", "retrying", "ended", "threwAbort"}]
      /\ endpoint \in [Worker -> Endpoint] /\ probes \in [Worker -> 0..(1 + Retries)] /\ alarm \in [Worker -> Nat]
      /\ nextPermit \in Nat /\ sent \in Seq(Nat) /\ transmissions \in Nat /\ completed \in Nat /\ now \in Nat
      /\ cursor \in 0..Addresses /\ scan \in {"new", "running", "returned", "threwAbort"} /\ aborted \in BOOLEAN
  BY DEF Inv, Typed
<1>3. scan # "new" /\ scan # "returned" /\ \A v \in Worker : at[v] # "new"
  BY <1>1 DEF Inv, Phases
<1>. DEFINE rest == OnTheWay \ {<<w, 1>>, <<w, 2>>}
<1>4. /\ outcome' \in [Endpoint -> Outcome \cup {"none"}]
      /\ \A e \in Endpoint : outcome'[e] = IF e = endpoint[w] THEN o ELSE outcome[e]
      /\ Cardinality(Done') = Cardinality(Done) + 1
      /\ \E n \in 0..1 : Cardinality(Silent') = Cardinality(Silent) + n /\ (n = 1 => probes[w] = 1 + Retries)
      /\ IsFiniteSet(rest) /\ Cardinality(rest) \in Nat /\ Cardinality(rest) = Cardinality(OnTheWay) - probes[w]
  BY <1>1, OutcomeCounted
<1>5. PICK k \in 0..1 :
         /\ at' \in [Worker -> {"new", "permit", "probing", "retrying", "ended", "threwAbort"}]
         /\ probes' \in [Worker -> 0..(1 + Retries)] /\ alarm' \in [Worker -> Nat] /\ nextPermit' \in Nat
         /\ \A v \in Worker : v # w => at'[v] = at[v] /\ probes'[v] = probes[v] /\ endpoint'[v] = endpoint[v]
         /\ at'[w] = IF ~HasNext(w) THEN "ended" ELSE IF k = 1 THEN "probing" ELSE "permit"
         /\ HasNext(w) => probes'[w] = k /\ endpoint' = [endpoint EXCEPT ![w] = NextEndpoint(w)]
                          /\ cursor' = Max({cursor, NextEndpoint(w)[1]}) /\ scan' = scan
         /\ ~HasNext(w) => k = 0 /\ UNCHANGED <<endpoint, cursor>>
                           /\ scan' = IF \A v \in Worker \ {w} : at[v] = "ended" THEN "returned" ELSE scan
         /\ transmissions' = transmissions + k
         /\ k = 1 => sent' = Append(sent, now)
         /\ k = 0 => sent' = sent
         /\ Permits'
  <2>1. CASE HasNext(w)
    <3>1. /\ endpoint' = [endpoint EXCEPT ![w] = NextEndpoint(w)] /\ cursor' = Max({cursor, NextEndpoint(w)[1]})
          /\ AskPermit(w, 0) /\ scan' = scan
      BY <2>1 DEF Checked
    <3>2. 0 \in 0..Retries /\ at[w] \in {"probing", "retrying"}
      BY <1>1, ProbesAssumption
    <3>3. /\ Permits' /\ nextPermit' \in Nat /\ alarm' \in [Worker -> Nat] /\ probes' \in [Worker -> 0..(1 + Retries)]
          /\ \/ Send(w, 0)
             \/ /\ at' = [at EXCEPT ![w] = "permit"] /\ probes' = [probes EXCEPT ![w] = 0]
                /\ UNCHANGED <<transmissions, sent>>
      BY <1>1, <3>1, <3>2, AskStep
    <3>4. CASE Send(w, 0)
      <4>1. /\ at' = [at EXCEPT ![w] = "probing"] /\ probes' = [probes EXCEPT ![w] = 1]
            /\ transmissions' = transmissions + 1 /\ sent' = Append(sent, now)
        BY <3>4 DEF Send
      <4>2. 1 \in 0..1
        OBVIOUS
      <4>. QED
        BY <1>2, <2>1, <3>1, <3>3, <4>1, <4>2
    <3>5. CASE at' = [at EXCEPT ![w] = "permit"] /\ probes' = [probes EXCEPT ![w] = 0] /\ UNCHANGED <<transmissions, sent>>
      <4>1. 0 \in 0..1 /\ 0 # 1
        OBVIOUS
      <4>. QED
        BY <1>2, <2>1, <3>1, <3>3, <3>5, <4>1
    <3>. QED
      BY <3>3, <3>4, <3>5
  <2>2. CASE ~HasNext(w)
    <3>1. /\ at' = [at EXCEPT ![w] = "ended"]
          /\ scan' = IF \A v \in Worker \ {w} : at[v] = "ended" THEN "returned" ELSE scan
          /\ UNCHANGED <<cursor, endpoint, probes, alarm, nextPermit, transmissions, sent>>
      BY <2>2 DEF Checked
    <3>2. Permits'
      <4>1. \A v \in Worker : at'[v] = "permit" => at[v] = "permit" /\ alarm'[v] = alarm[v]
        BY <1>2, <3>1
      <4>. QED
        BY <1>1, <3>1, <4>1, PermitsStay
    <3>3. 0 \in 0..1 /\ 0 # 1
      OBVIOUS
    <3>. QED
      BY <1>2, <2>2, <3>1, <3>2, <3>3
  <2>. QED
    BY <2>1, <2>2
<1>6. \A v \in Worker : v # w => (Busy(v)' <=> Busy(v))
  BY <1>5 DEF Busy
<1>7. Busy(w)' <=> HasNext(w)
  BY <1>5 DEF Busy
<1>. HIDE DEF rest
<1>8. /\ Shares' /\ cursor' \in 0..Addresses /\ endpoint'[w] \in Endpoint
      /\ (~HasNext(w) => cursor = Addresses) /\ (cursor' # cursor => cursor # Addresses)
  <2>1. \/ /\ HasNext(w) /\ Busy(w)' /\ endpoint'[w] = NextEndpoint(w)
           /\ cursor' = Max({cursor, NextEndpoint(w)[1]})
        \/ ~HasNext(w) /\ ~Busy(w)' /\ UNCHANGED <<endpoint, cursor>>
    BY <1>2, <1>5, <1>7
  <2>2. \A v \in Worker : v # w => (Busy(v)' <=> Busy(v)) /\ endpoint'[v] = endpoint[v]
    BY <1>5, <1>6
  <2>. QED
    BY <1>1, <1>4, <2>1, <2>2, NextShare
<1>9. Typed'
  <2>1. endpoint' \in [Worker -> Endpoint]
    BY <1>2, <1>5, <1>8
  <2>2. scan' \in {"new", "running", "returned", "threwAbort"}
    BY <1>2, <1>5
  <2>3. sent' \in Seq(Nat) /\ transmissions' \in Nat
    <3>1. sent' = Append(sent, now) \/ sent' = sent
      BY <1>5
    <3>2. Append(sent, now) \in Seq(Nat) /\ sent \in Seq(Nat)
      BY <1>2, Appended
    <3>3. transmissions' = transmissions + k /\ k \in Nat
      BY <1>5
    <3>4. transmissions' \in Nat
      BY <1>2, <3>3
    <3>. QED
      BY <3>1, <3>2, <3>4
  <2>4. completed' \in Nat /\ now' \in Nat /\ aborted' \in BOOLEAN
    BY <1>1, <1>2
  <2>. QED
    BY <1>4, <1>5, <1>8, <2>1, <2>2, <2>3, <2>4 DEF Typed
<1>10. Phases'
  <2>1. scan' # "new" /\ \A v \in Worker : at'[v] # "new"
    BY <1>3, <1>5
  <2>2. scan' = "returned" => \A v \in Worker : at'[v] = "ended"
    BY <1>3, <1>5
  <2>3. ASSUME NEW v \in Worker
        PROVE  /\ at'[v] = "ended" => cursor' = Addresses
               /\ at'[v] = "probing" => probes'[v] >= 1
               /\ at'[v] \in {"permit", "retrying"} => probes'[v] <= Retries
    <3>1. CASE v = w
      BY <1>5, <1>8, <3>1, ProbesAssumption
    <3>2. CASE v # w
      BY <1>5, <1>8, <3>2 DEF Inv, Phases
    <3>. QED
      BY <3>1, <3>2
  <2>. QED
    BY <2>1, <2>2, <2>3 DEF Phases
<1>11. Cardinality(OnTheWay') = Cardinality(rest) + k
  <2>1. \A v \in Worker : v # w => (Busy(v)' <=> Busy(v)) /\ probes'[v] = probes[v]
    BY <1>5, <1>6
  <2>2. (k = 1 => Busy(w)' /\ probes'[w] = 1) /\ (k = 0 => ~Busy(w)' \/ probes'[w] = 0)
    BY <1>5, <1>7
  <2>3. rest = OnTheWay \ {<<w, 1>>, <<w, 2>>}
    BY DEF rest
  <2>. QED
    BY <1>4, <2>1, <2>2, <2>3, NextOnTheWay
<1>12. Counted'
  <2>0. k \in Nat /\ probes[w] \in Nat /\ completed \in Nat /\ transmissions \in Nat
    BY <1>2, Pairs
  <2>1. PICK n \in 0..1 : Cardinality(Silent') = Cardinality(Silent) + n /\ (n = 1 => probes[w] = 1 + Retries)
    BY <1>4
  <2>2. /\ Cardinality(OnTheWay) \in Nat /\ Cardinality(Silent) \in Nat /\ Cardinality(Done) \in Nat
        /\ probes[w] \in {0, 1, 2} /\ (probes[w] = 2 => Retries = 1)
    BY Finite, Pairs
  <2>3. probes[w] >= 1
    BY <1>1 DEF Inv, Phases
  <2>4. /\ completed = Cardinality(Done) /\ transmissions = Len(sent)
        /\ completed + Again(Cardinality(Silent)) + Cardinality(OnTheWay) <= transmissions
        /\ transmissions <= completed + Again(completed) + Cardinality(OnTheWay)
    BY DEF Inv, Counted
  <2>5. completed' = Cardinality(Done')
    BY <1>1, <1>4, <2>4
  <2>6. transmissions' = transmissions + k /\ transmissions' = Len(sent')
    <3>1. CASE k = 1
      BY <1>2, <1>5, <2>4, <3>1, Appended
    <3>2. CASE k = 0
      BY <1>2, <1>5, <2>4, <3>2
    <3>. QED
      BY <3>1, <3>2
  <2>7. Again(Cardinality(Silent')) = Again(Cardinality(Silent)) + Again(n) /\ Again(completed') = Again(completed) + Again(1)
    BY <1>1, <1>2, <2>1, <2>2 DEF Again
  <2>8. 1 + Again(n) <= probes[w] /\ probes[w] <= 1 + Again(1)
    BY <2>1, <2>2, <2>3, ProbesAssumption DEF Again
  <2>9. Again(n) \in Nat /\ Again(1) \in Nat /\ Again(Cardinality(Silent)) \in Nat /\ Again(completed) \in Nat
    <3>1. n \in Nat /\ 1 \in Nat
      OBVIOUS
    <3>. QED
      BY <2>0, <2>2, <3>1, AgainTimes
  <2>10. Cardinality(OnTheWay') = Cardinality(OnTheWay) - probes[w] + k
    <3>1. Cardinality(rest) \in Nat /\ Cardinality(rest) = Cardinality(OnTheWay) - probes[w]
      BY <1>4
    <3>2. k \in Nat /\ probes[w] \in Nat
      BY <2>2
    <3>. QED
      BY <1>11, <2>2, <3>1, <3>2
  <2>11. transmissions' = transmissions + k /\ completed' = completed + 1
    BY <1>1, <2>6
  <2>12. completed' + Again(Cardinality(Silent')) + Cardinality(OnTheWay') <= transmissions'
    <3>1. completed + Again(Cardinality(Silent)) + Cardinality(OnTheWay) <= transmissions
      BY <2>4
    <3>. QED
      BY <2>0, <2>2, <2>7, <2>8, <2>9, <2>10, <2>11, <3>1
  <2>13. transmissions' <= completed' + Again(completed') + Cardinality(OnTheWay')
    <3>1. transmissions <= completed + Again(completed) + Cardinality(OnTheWay)
      BY <2>4
    <3>. QED
      BY <2>0, <2>2, <2>7, <2>8, <2>9, <2>10, <2>11, <3>1
  <2>. QED
    BY <2>5, <2>6, <2>12, <2>13 DEF Counted
<1>. QED
  BY <1>5, <1>8, <1>9, <1>10, <1>12 DEF Inv
-----------------------------------------------------------------------------
\* The launch gives every worker an address, and the first of them its permit.
LEMMA LaunchStep == ASSUME Inv, Launch PROVE Inv'
<1>. DEFINE K == Cardinality(Worker)
<1>1. /\ scan = "new" /\ cursor' = K /\ UNCHANGED <<now, endpoint, outcome, completed, aborted>>
  BY DEF Launch
<1>2. /\ cursor = 0 /\ transmissions = 0 /\ sent = <<>> /\ completed = 0 /\ nextPermit = 0
      /\ \A w \in Worker : at[w] = "new" /\ endpoint[w] = <<w, 1>> /\ probes[w] = 0
      /\ \A e \in Endpoint : outcome[e] = "none"
  BY <1>1 DEF Inv, Phases
<1>3. K \in 1..Addresses /\ Worker = 1..K /\ 1 \in Worker /\ now \in Nat /\ K \in Nat /\ \A w \in Worker : w \in Nat /\ w >= 1 /\ w <= K
  BY Workers, ProbesAssumption DEF Inv, Typed
<1>. HIDE DEF K
<1>4. PICK k \in 0..1 :
         /\ at' \in [Worker -> {"permit", "probing", "threwAbort"}] /\ alarm' \in [Worker -> Nat] /\ nextPermit' \in Nat
         /\ probes' = [w \in Worker |-> IF w = 1 THEN k ELSE 0] /\ transmissions' = k
         /\ sent' = IF k = 1 THEN <<now>> ELSE <<>>
         /\ scan' \in {"running", "threwAbort"}
         /\ \A w \in Worker : /\ at'[w] = "permit" => k = 1 /\ w # 1 /\ alarm'[w] = now + w - 1
                              /\ at'[w] = "probing" => k = 1 /\ w = 1
         /\ k = 1 => nextPermit' = now + K
  <2>1. CASE aborted
    <3>1. /\ at' = [w \in Worker |-> "threwAbort"] /\ scan' = "threwAbort"
          /\ UNCHANGED <<alarm, nextPermit, probes, transmissions, sent>>
      BY <2>1 DEF Launch
    <3>2. probes' = [w \in Worker |-> IF w = 1 THEN 0 ELSE 0]
      BY <1>2, <3>1 DEF Inv, Typed
    <3>3. 0 \in 0..1 /\ 0 # 1
      OBVIOUS
    <3>. QED
      BY <1>2, <3>1, <3>2, <3>3 DEF Inv, Typed
  <2>2. CASE ~aborted
    <3>1. /\ at' = [w \in Worker |-> IF w = 1 THEN "probing" ELSE "permit"] /\ alarm' = [w \in Worker |-> now + w - 1]
          /\ nextPermit' = now + K /\ probes' = [w \in Worker |-> IF w = 1 THEN 1 ELSE 0] /\ transmissions' = 1
          /\ sent' = <<now>> /\ scan' = "running"
      BY <2>2 DEF Launch, K
    <3>2. alarm' \in [Worker -> Nat] /\ nextPermit' \in Nat /\ 1 \in 0..1
      <4>1. \A w \in Worker : now + w - 1 \in Nat
        BY <1>3
      <4>. QED
        BY <1>3, <3>1, <4>1
    <3>. QED
      BY <3>1, <3>2
  <2>. QED
    BY <2>1, <2>2
<1>5. k \in Nat /\ Len(sent') = k /\ sent' \in Seq(Nat) /\ (\A i \in 1..Len(sent') : i = 1 /\ k = 1 /\ sent'[i] = now)
  <2>1. CASE k = 1
    <3>1. sent' = <<now>>
      BY <1>4, <2>1
    <3>. QED
      BY <1>3, <2>1, <3>1
  <2>2. CASE k = 0
    <3>1. sent' = <<>>
      BY <1>4, <2>2
    <3>. QED
      BY <2>2, <3>1
  <2>. QED
    BY <2>1, <2>2
<1>6. \A w \in Worker : Busy(w)' /\ at'[w] \notin {"new", "ended", "retrying"}
  BY <1>4 DEF Busy
<1>7. Typed'
  <2>1. probes' \in [Worker -> 0..(1 + Retries)]
    BY <1>4, ProbesAssumption
  <2>2. at' \in [Worker -> {"new", "permit", "probing", "retrying", "ended", "threwAbort"}] /\ transmissions' \in Nat
        /\ scan' \in {"new", "running", "returned", "threwAbort"}
    BY <1>4, <1>5
  <2>3. cursor' \in 0..Addresses
    BY <1>1, <1>3, ProbesAssumption
  <2>4. now' \in Nat /\ endpoint' \in [Worker -> Endpoint] /\ outcome' \in [Endpoint -> Outcome \cup {"none"}]
        /\ completed' \in Nat /\ aborted' \in BOOLEAN
    BY <1>1 DEF Inv, Typed
  <2>. QED
    BY <1>4, <1>5, <2>1, <2>2, <2>3, <2>4 DEF Typed
<1>8. Phases'
  <2>1. scan' # "new" /\ scan' # "returned"
    BY <1>4
  <2>2. \A w \in Worker : /\ at'[w] = "probing" => probes'[w] >= 1
                          /\ at'[w] \in {"permit", "retrying"} => probes'[w] <= Retries
    BY <1>4, <1>6, ProbesAssumption
  <2>. QED
    BY <1>6, <2>1, <2>2 DEF Phases
<1>9. Shares'
  <2>1. \A e \in Endpoint : e = <<e[1], e[2]>> /\ e[1] \in 1..Addresses /\ e[2] \in 1..Ports /\ outcome'[e] = "none"
    BY <1>1, <1>2 DEF Endpoint
  <2>2. \A w \in Worker : endpoint'[w] = <<w, 1>> /\ endpoint'[w][1] = w /\ endpoint'[w][2] = 1 /\ w \in 1..Addresses
    BY <1>1, <1>2, Workers
  <2>3. \A w \in Worker, q \in 1..Ports : outcome'[<<w, q>>] = "none"
    BY <1>1, <1>2, <2>2 DEF Endpoint
  <2>4. \A e \in Endpoint : e[1] <= cursor' => e[1] \in Worker /\ 1 <= e[2]
    BY <1>1, <1>3, <2>1
  <2>5. \A w \in Worker : endpoint'[w][1] <= cursor'
    BY <1>1, <1>3, <2>2
  <2>. QED
    BY <1>6, <2>1, <2>2, <2>3, <2>4, <2>5 DEF Shares
<1>10. Counted'
  <2>1. Done' = {} /\ Silent' = {}
    BY <1>1, <1>2 DEF Done, Silent
  <2>2. OnTheWay' = IF k = 1 THEN {<<1, 1>>} ELSE {}
    <3>1. \A w \in Worker, i \in {1, 2} : <<w, i>> \in OnTheWay' <=> i <= probes'[w]
      BY <1>6 DEF OnTheWay
    <3>2. \A w \in Worker, i \in {1, 2} : i <= probes'[w] <=> w = 1 /\ k = 1 /\ i = 1
      BY <1>4
    <3>3. \A x \in OnTheWay' : \E w \in Worker, i \in {1, 2} : x = <<w, i>>
      BY DEF OnTheWay
    <3>4. \A x \in OnTheWay' : x = <<1, 1>> /\ k = 1
      BY <3>1, <3>2, <3>3
    <3>5. k = 1 => <<1, 1>> \in OnTheWay'
      BY <1>3, <3>1, <3>2
    <3>. QED
      BY <3>4, <3>5
  <2>3. Cardinality(OnTheWay') = k
    <3>1. CASE k = 1
      BY <2>2, <3>1, FS_Singleton
    <3>2. CASE k = 0
      BY <2>2, <3>2, FS_EmptySet
    <3>. QED
      BY <3>1, <3>2
  <2>4. completed' = 0 /\ Cardinality(Done') = 0 /\ Cardinality(Silent') = 0 /\ Again(0) = 0 /\ transmissions' = k
    BY <1>1, <1>2, <1>4, <2>1, FS_EmptySet DEF Again
  <2>5. /\ completed' + Again(Cardinality(Silent')) + Cardinality(OnTheWay') <= transmissions'
        /\ transmissions' <= completed' + Again(completed') + Cardinality(OnTheWay')
    BY <1>5, <2>3, <2>4
  <2>. QED
    BY <1>5, <2>4, <2>5 DEF Counted
<1>11. Permits'
  <2>1. \A w \in Worker : at'[w] = "permit" => alarm'[w] < nextPermit' /\ now <= alarm'[w] + Lateness
    BY <1>3, <1>4, ProbesAssumption
  <2>2. \A v, w \in Worker : at'[v] = "permit" /\ at'[w] = "permit" /\ alarm'[v] = alarm'[w] => v = w
    BY <1>3, <1>4
  <2>3. PICK p \in [1..Len(sent') -> Nat] : \A i \in 1..Len(sent') : p[i] = now
    <3>1. [i \in 1..Len(sent') |-> now] \in [1..Len(sent') -> Nat]
      BY <1>3
    <3>. QED
      BY <3>1
  <2>4. Assigned(p)'
    <3>1. \A i \in 1..Len(sent') : /\ p[i] < nextPermit' /\ p[i] <= sent'[i] /\ sent'[i] <= p[i] + Lateness
                                   /\ \A w \in Worker : at'[w] = "permit" => p[i] # alarm'[w]
      BY <1>3, <1>4, <1>5, <2>3, ProbesAssumption
    <3>. QED
      BY <1>5, <3>1 DEF Assigned
  <2>5. \A i \in 1..Len(sent') : sent'[i] <= now /\ \A j \in 1..Len(sent') : i <= j => sent'[i] <= sent'[j]
    BY <1>3, <1>5
  <2>. QED
    BY <1>1, <2>1, <2>2, <2>4, <2>5 DEF Permits
<1>. QED
  BY <1>7, <1>8, <1>9, <1>10, <1>11 DEF Inv

\* The scan is aborted, or time passes.
LEMMA OtherStep ==
    ASSUME Inv, Abort \/ TimePasses \/ UNCHANGED vars
    PROVE  Inv'
<1>1. UNCHANGED <<cursor, at, endpoint, probes, alarm, nextPermit, outcome, completed, transmissions, scan, sent>>
  BY DEF Abort, TimePasses, vars
<1>2. now' \in Nat /\ aborted' \in BOOLEAN /\ now <= now'
      /\ \A w \in Worker : at[w] = "permit" => now' <= alarm[w] + Lateness
  <2>1. now \in Nat /\ aborted \in BOOLEAN /\ alarm \in [Worker -> Nat]
        /\ \A w \in Worker : at[w] = "permit" => now <= alarm[w] + Lateness
    BY DEF Inv, Typed, Permits
  <2>2. CASE TimePasses
    <3>1. now' = now + 1 /\ aborted' = aborted /\ \A w \in Worker : at[w] = "permit" => now < alarm[w] + Lateness
      BY <2>2 DEF TimePasses, Waiting
    <3>. QED
      BY <2>1, <3>1, ProbesAssumption
  <2>3. CASE Abort \/ UNCHANGED vars
    <3>1. now' = now /\ aborted' \in BOOLEAN
      BY <2>1, <2>3 DEF Abort, vars
    <3>. QED
      BY <2>1, <3>1
  <2>. QED
    BY <2>2, <2>3
<1>3. Typed' /\ Phases'
  BY <1>1, <1>2 DEF Inv, Typed, Phases
<1>4. Shares'
  BY <1>1 DEF Inv, Shares, Busy
<1>5. Counted'
  <2>1. Done' = Done /\ Silent' = Silent /\ OnTheWay' = OnTheWay
    BY <1>1 DEF Done, Silent, OnTheWay, Busy
  <2>2. Cardinality(Done') = Cardinality(Done) /\ Again(Cardinality(Silent')) = Again(Cardinality(Silent))
        /\ Cardinality(OnTheWay') = Cardinality(OnTheWay) /\ Again(completed') = Again(completed)
    BY <1>1, <2>1
  <2>. QED
    BY <1>1, <2>2 DEF Inv, Counted
<1>6. Permits'
  <2>1. PICK p \in [1..Len(sent) -> Nat] : Assigned(p)
    BY DEF Inv, Permits
  <2>2. Assigned(p)'
    BY <1>1, <2>1 DEF Assigned
  <2>3. \A i \in 1..Len(sent) : sent[i] <= now'
    <3>1. \A i \in 1..Len(sent) : sent[i] <= now /\ sent[i] \in Nat /\ now \in Nat
      BY DEF Inv, Typed, Permits
    <3>. QED
      BY <1>2, <3>1
  <2>. QED
    BY <1>1, <1>2, <2>2, <2>3 DEF Inv, Permits
<1>. QED
  BY <1>3, <1>4, <1>5, <1>6 DEF Inv

\* Each step keeps the invariant.
LEMMA InvNext == Inv /\ [Next]_vars => Inv'
  BY LaunchStep, TimerStep, CheckedStep, OtherStep DEF Next, WorkerGoesOn

\* The invariant holds of every state.
LEMMA InvHolds == Spec => []Inv
  BY InvInit, InvNext, PTL DEF Spec
-----------------------------------------------------------------------------
\* UDP-08: the permits of the datagrams from one to a later one are different numbers, none
\* before the first was sent less the lateness, none after the last was sent.
THEOREM Paced == Spec => []PacedUpToLateness
<1>1. ASSUME Inv PROVE PacedUpToLateness
  <2>1. PICK p \in [1..Len(sent) -> Nat] : Assigned(p)
    BY <1>1 DEF Inv, Permits
  <2>2. ASSUME NEW i \in 1..Len(sent), NEW j \in 1..Len(sent), i < j PROVE sent[j] - sent[i] + Lateness >= j - i
    <3>. DEFINE low == sent[i] - Lateness
                high == sent[j]
    <3>1. Len(sent) \in Nat /\ i \in Nat /\ j \in Nat /\ sent[i] \in Nat /\ sent[j] \in Nat /\ low \in Int /\ high \in Int /\ Lateness \in Nat
      <4>1. sent \in Seq(Nat) /\ Lateness \in Nat
        BY <1>1, ProbesAssumption DEF Inv, Typed
      <4>2. Len(sent) \in Nat /\ sent[i] \in Nat /\ sent[j] \in Nat
        BY <4>1
      <4>. QED
        BY <4>1, <4>2
    <3>2. ASSUME NEW k \in i..j PROVE p[k] \in low..high /\ k \in 1..Len(sent)
      <4>1. k \in 1..Len(sent) /\ i <= k /\ k <= j
        BY <3>1
      <4>2. p[k] \in Nat /\ p[k] <= sent[k] /\ sent[k] <= p[k] + Lateness /\ sent[k] \in Nat
        BY <1>1, <2>1, <4>1 DEF Assigned, Inv, Typed
      <4>3. sent[i] <= sent[k] /\ sent[k] <= sent[j]
        BY <1>1, <4>1 DEF Inv, Permits
      <4>. QED
        BY <3>1, <4>1, <4>2, <4>3
    <3>. DEFINE f == [k \in i..j |-> p[k]]
    <3>. HIDE DEF low, high
    <3>3. f \in [i..j -> low..high] /\ \A k, l \in i..j : f[k] = f[l] => k = l
      BY <2>1, <3>2 DEF Assigned
    <3>4. f \in Injection(i..j, low..high)
      BY <3>3 DEF Injection, IsInjective
    <3>5. /\ IsFiniteSet(low..high) /\ Cardinality(low..high) = IF low > high THEN 0 ELSE high - low + 1
          /\ Cardinality(i..j) = j - i + 1
      <4>1. i \in Int /\ j \in Int /\ ~(i > j) /\ low \in Int /\ high \in Int
        BY <2>2, <3>1
      <4>2. Cardinality(i..j) = j - i + 1
        BY <4>1, FS_Interval
      <4>. QED
        BY <4>1, <4>2, FS_Interval
    <3>6. Cardinality(i..j) <= Cardinality(low..high)
      BY <3>4, <3>5, FS_Injection
    <3>. QED
      BY <2>2, <3>1, <3>5, <3>6 DEF low, high
  <2>. QED
    BY <2>2 DEF PacedUpToLateness
<1>. QED
  BY <1>1, InvHolds, PTL

\* UDP-07, UDP-10: the totals of a scan agree with the outcomes, and a scan that returns has
\* an outcome of every endpoint.
THEOREM Totals == Spec => []TotalsAgree
<1>1. ASSUME Inv PROVE TotalsAgree
  <2>1. /\ completed = Cardinality(Done) /\ transmissions = Len(sent)
        /\ completed + Again(Cardinality(Silent)) + Cardinality(OnTheWay) <= transmissions
        /\ transmissions <= completed + Again(completed) + Cardinality(OnTheWay)
    BY <1>1 DEF Inv, Counted
  <2>2. /\ completed \in Nat /\ transmissions \in Nat /\ Cardinality(OnTheWay) \in Nat /\ Cardinality(Silent) \in Nat
        /\ Cardinality(Worker) \in Nat /\ IsFiniteSet(Worker)
    BY <1>1, Finite, Workers DEF Inv, Typed
  <2>3. Cardinality(OnTheWay) <= Cardinality(Worker) * (1 + Retries)
    <3>. DEFINE tries == 1..(1 + Retries)
    <3>1. IsFiniteSet(tries) /\ Cardinality(tries) = 1 + Retries
      <4>1. 1 \in Int /\ 1 + Retries \in Int /\ ~(1 > 1 + Retries) /\ 1 + Retries - 1 + 1 = 1 + Retries
        BY ProbesAssumption
      <4>. QED
        BY <4>1, FS_Interval
    <3>2. OnTheWay \in SUBSET (Worker \X tries)
      <4>1. \A w \in Worker, k \in {1, 2} : k <= probes[w] => k \in tries
        BY <1>1, Pairs, ProbesAssumption
      <4>2. \A d \in OnTheWay : \E w \in Worker, k \in {1, 2} : d = <<w, k>> /\ k <= probes[w]
        BY DEF OnTheWay
      <4>. HIDE DEF tries
      <4>3. ASSUME NEW d \in OnTheWay PROVE d \in Worker \X tries
        <5>1. PICK w \in Worker, k \in {1, 2} : d = <<w, k>> /\ k <= probes[w]
          BY <4>2
        <5>2. k \in tries
          BY <4>1, <5>1
        <5>. QED
          BY <5>1, <5>2
      <4>. QED
        BY <4>3
    <3>. HIDE DEF tries
    <3>3. IsFiniteSet(Worker \X tries) /\ Cardinality(Worker \X tries) = Cardinality(Worker) * Cardinality(tries)
      BY <2>2, <3>1, FS_Product
    <3>4. Cardinality(OnTheWay) <= Cardinality(Worker \X tries)
      BY <3>2, <3>3, FS_Subset
    <3>. QED
      BY <3>1, <3>3, <3>4
  <2>4. transmissions >= completed + Cardinality(Silent) * Retries
    <3>1. Again(Cardinality(Silent)) = Cardinality(Silent) * Retries /\ Again(Cardinality(Silent)) \in Nat
      BY <2>2, AgainTimes
    <3>2. transmissions >= completed + Again(Cardinality(Silent))
      BY <2>1, <2>2, <3>1
    <3>. QED
      BY <3>1, <3>2
  <2>5. transmissions <= (completed + Cardinality(Worker)) * (1 + Retries)
    <3>. DEFINE W == Cardinality(Worker)
    <3>1. completed + W \in Nat /\ W \in Nat
      BY <2>2
    <3>. HIDE DEF W
    <3>2. /\ W + Again(W) = W * (1 + Retries)
          /\ (completed + W) + Again(completed + W) = (completed + W) * (1 + Retries)
      BY <3>1, AgainTimes
    <3>3. Again(completed) \in Nat /\ Again(W) \in Nat
      BY <2>2, <3>1, AgainTimes
    <3>4. Again(completed + W) = Again(completed) + Again(W)
      BY <2>2, <3>1 DEF Again
    <3>5. Cardinality(OnTheWay) <= W + Again(W)
      BY <2>3, <3>2 DEF W
    <3>6. transmissions <= (completed + W) + (Again(completed) + Again(W))
      <4>1. \A t, c, m, o, a, b \in Nat : t <= c + a + o /\ o <= m + b => t <= (c + m) + (a + b)
        OBVIOUS
      <4>2. transmissions <= completed + Again(completed) + Cardinality(OnTheWay)
        BY <2>1
      <4>. QED
        BY <2>2, <3>1, <3>3, <3>5, <4>1, <4>2
    <3>. QED
      BY <3>2, <3>4, <3>6 DEF W
  <2>6. ASSUME scan = "returned", NEW e \in Endpoint PROVE outcome[e] # "none"
    <3>1. \A w \in Worker : at[w] = "ended" /\ cursor = Addresses
      BY <1>1, <2>6 DEF Inv, Phases
    <3>2. e[1] <= cursor
      BY <3>1, Workers, ProbesAssumption DEF Endpoint
    <3>3. \A w \in Worker : ~Busy(w)
      BY <3>1 DEF Busy
    <3>. QED
      BY <1>1, <3>2, <3>3 DEF Inv, Shares
  <2>. QED
    BY <2>1, <2>4, <2>5, <2>6 DEF TotalsAgree, Done, Silent
<1>. QED
  BY <1>1, InvHolds, PTL

\* UDP-09: after the abort no step sends a datagram.
THEOREM NothingAfterAbort == Spec => StopsSending
<1>1. ASSUME [Next]_vars PROVE [NothingIsSent]_vars
  <2>. SUFFICES ASSUME Next, aborted PROVE sent' = sent
    BY <1>1 DEF NothingIsSent
  <2>. QED
    BY DEF Next, Launch, WorkerGoesOn, PermitComes, TryAgain, DelayEnds, Stop, Checked, Abort, TimePasses
<1>. QED
  BY <1>1, PTL DEF Spec, StopsSending

\* The types, with the bound of the count.
THEOREM TypesCorrect == Spec => []TypeOK
<1>1. ASSUME Inv PROVE TypeOK
  <2>1. completed <= Addresses * Ports
    BY <1>1, Finite DEF Inv, Counted
  <2>2. completed \in 0..(Addresses * Ports)
    BY <1>1, <2>1, Finite, FS_CardinalityType DEF Inv, Typed
  <2>. QED
    BY <1>1, <2>2 DEF Inv, Typed, TypeOK
<1>. QED
  BY <1>1, InvHolds, PTL
=============================================================================
