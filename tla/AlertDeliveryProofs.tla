-------------------------- MODULE AlertDeliveryProofs --------------------------
(***************************************************************************)
(* The alert policy implements AlertLog for any tokens, chains, tiers and  *)
(* limits, over restarts and lost answers.  The invariant says that the    *)
(* table is ordered by time and rises in rank within a cooldown, that the  *)
(* memory knows of the table all that a later decision can ask for, and    *)
(* that the table has not moved under the alert on its way.                *)
(***************************************************************************)
EXTENDS AlertDelivery, FiniteSetTheorems, FunctionTheorems, SequenceTheorems, TLAPS

Recs == 1 .. Len(log)

\* The table is written in the order of the alerts' times.
LogOrdered ==
    /\ \A i \in Recs : log[i].ts <= now
    /\ \A i, j \in Recs : i < j => log[i].ts <= log[j].ts

\* Within the cooldown of an alert its token's next ones rank higher.
Ascending ==
    \A i, j \in Recs :
        i < j /\ log[i].token = log[j].token /\ log[j].ts - log[i].ts < Cooldown
        => Rank[log[i].tier] < Rank[log[j].tier]

Latest(i, k) ==
    /\ i \in Recs /\ log[i].token = k
    /\ \A j \in Recs : log[j].token = k => j <= i

HasLatest == \A i \in Recs : \E l \in Recs : Latest(l, log[i].token)

\* The policy remembers a token's latest alert, and forgets none that could
\* still hold the token back.
LastKnows ==
    \A k \in Tokens :
        \/ /\ last[k] = None
           /\ up => \A i \in Recs : log[i].token = k => now - log[i].ts > Longest
        \/ /\ last[k] # None /\ up
           /\ \E i \in Recs : Latest(i, k) /\ last[k] = [ts |-> log[i].ts, tier |-> log[i].tier]

\* A chain's list has its recorded alerts only, and all of the last hour's.
SentKnows ==
    up => \A ch \in Chains :
        /\ \A e \in sent[ch] : \E i \in Recs : ChainOf[log[i].token] = ch /\ e = Row(i)
        /\ \A i \in Recs : ChainOf[log[i].token] = ch /\ now - log[i].ts < Hour => Row(i) \in sent[ch]

\* The alert on its way was allowed by the table, which has not changed since.
SendingFits ==
    sending # None =>
        LET a == sending.alert IN
        /\ up /\ a.ts <= now
        /\ \A i \in Recs : log[i].ts <= a.ts
        /\ \A i \in 1 .. Len(posts) : posts[i].ts <= a.ts
        /\ Log!OutOfCooldown(a.token, a.tier, a.ts)
        /\ Log!BelowHourlyCap(a.token, a.tier, a.ts)

PostsPast == \A i \in 1 .. Len(posts) : posts[i].ts <= now

IInv ==
    /\ TypeOK
    /\ LogOrdered /\ Ascending /\ HasLatest
    /\ LastKnows /\ SentKnows
    /\ SendingFits /\ PostsPast /\ PingsExplained

-----------------------------------------------------------------------------
(* The table, and what the steps change. *)

LEMMA Bounds ==
    /\ Cooldown \in Nat /\ Hour \in Nat /\ MaxPerHour \in Nat /\ Longest \in Nat
    /\ Cooldown <= Longest /\ Hour <= Longest
    /\ \A t \in Tiers : Rank[t] \in Nat
    /\ \A k \in Tokens : ChainOf[k] \in Chains
BY AlertAssumption DEF Longest

\* The abstract module counts as this one does.
LEMMA SameCount == ASSUME NEW S PROVE Log!Cardinality(S) = Cardinality(S)
BY DEF Log!Cardinality, Cardinality

\* The cards that reached Discord, with their parts.
LEMMA Cards ==
    ASSUME NEW s \in Seq(Alerts)
    PROVE  /\ Len(s) \in Nat
           /\ \A i \in 1 .. Len(s) : s[i] \in Alerts /\ s[i].ts \in Nat /\ s[i].tier \in Tiers
<1>1. Len(s) \in Nat /\ \A i \in 1 .. Len(s) : s[i] \in Alerts
  OBVIOUS
<1> QED
  BY <1>1 DEF Alerts

\* A row of the table, with its parts.
LEMMA Rows ==
    ASSUME TypeOK
    PROVE  /\ now \in Nat /\ Len(log) \in Nat
           /\ \A i \in Recs : /\ i \in Nat \ {0} /\ log[i] \in Alerts
                             /\ log[i].token \in Tokens /\ log[i].tier \in Tiers /\ log[i].ts \in Nat
                             /\ Row(i) \in Entry
<1>1. log \in Seq(Alerts) /\ now \in Nat
  BY DEF TypeOK
<1>2. Len(log) \in Nat /\ \A i \in Recs : i \in Nat \ {0} /\ log[i] \in Alerts
  BY <1>1 DEF Recs
<1> QED
  BY <1>1, <1>2 DEF Alerts, Row, Entry

\* Time does not go back, and each of the other variables is left alone by
\* all steps but a few.
LEMMA Changes ==
    ASSUME TypeOK, SendingFits, [Next]_vars
    PROVE  /\ now' \in Nat /\ now <= now'
           /\ log' = log \/ Recorded
           /\ posts' = posts \/ Deliver
           /\ UNCHANGED <<last, up>> \/ Recorded \/ Crash \/ Restart
           /\ \/ UNCHANGED <<sent, up>> \/ Recorded \/ Crash \/ Restart
              \/ up' = up /\ now' = now /\ \E k \in Tokens : Prune(k, now)
           /\ \/ sending' = None
              \/ Deliver
              \/ \E k \in Tokens, tier \in Tiers : StartSend(k, tier)
              \/ sending # None /\ sending' # None /\ sending'.alert = sending.alert
                 /\ UNCHANGED <<log, posts, up>>
<1> USE DEF TypeOK
<1>1. CASE Tick
  BY <1>1 DEF Tick
<1>2. CASE Deliver
  BY <1>2 DEF Deliver
<1>3. CASE Recorded
  BY <1>3 DEF Recorded
<1>4. CASE RolledBack \/ SendFails \/ Crash
  BY <1>4 DEF RolledBack, SendFails, Crash
<1>5. CASE RateLimited
  <2>1. sending \in Sending /\ sending' = [sending EXCEPT !.attempt = @ + 1]
    BY <1>5 DEF RateLimited
  <2>2. sending.attempt + 1 \in 1 .. MaxAttempts
    BY <1>5, <2>1, AlertAssumption DEF RateLimited, Sending
  <2>3. sending' \in Sending /\ sending'.alert = sending.alert
    BY <2>1, <2>2 DEF Sending
  <2> QED
    BY <1>5, <2>3, NoneAssumption DEF RateLimited
<1>6. CASE Restart
  <2>1. ~up /\ UNCHANGED <<now, sending, log, posts>>
    BY <1>6 DEF Restart
  <2>2. sending' = None
    BY <2>1 DEF SendingFits
  <2> QED
    BY <1>6, <2>1, <2>2
<1>7. ASSUME NEW k \in Tokens, NEW tier \in Tiers,
             SkippedInCooldown(k, tier) \/ SkippedByCap(k, tier) \/ StartSend(k, tier)
      PROVE  /\ UNCHANGED <<now, up, last, log, posts>>
             /\ UNCHANGED sent \/ Prune(k, now)
             /\ StartSend(k, tier) \/ sending' = None
  BY <1>7 DEF SkippedInCooldown, SkippedByCap, StartSend, vars
<1>8. CASE UNCHANGED vars
  BY <1>8 DEF vars
<1> QED
  BY <1>1, <1>2, <1>3, <1>4, <1>5, <1>6, <1>7, <1>8 DEF Next

\* A recorded alert is the table's last row; the others stay.
LEMMA Grows ==
    ASSUME TypeOK, Recorded
    PROVE  LET a == sending.alert  n == Len(log) + 1 IN
           /\ sending \in Sending /\ a \in Alerts /\ n \in Nat \ {0}
           /\ Len(log') = n /\ log'[n] = a
           /\ \A i \in Recs : i < n /\ log'[i] = log[i] /\ log[i] \in Alerts
           /\ Recs' = Recs \cup {n} /\ n \notin Recs
           /\ log' \in Seq(Alerts)
           /\ now' = now /\ up' = up /\ posts' = posts
<1>1. sending \in Sending /\ sending.alert \in Alerts
  BY DEF Recorded, TypeOK, Sending
<1>2. log \in Seq(Alerts) /\ log' = Append(log, sending.alert)
  BY DEF Recorded, TypeOK
<1>3. Len(log) \in Nat /\ \A i \in Recs : log[i] \in Alerts
  BY <1>2 DEF Recs
<1>4. /\ Len(log') = Len(log) + 1 /\ log' \in Seq(Alerts)
      /\ log'[Len(log) + 1] = sending.alert
      /\ \A i \in Recs : log'[i] = log[i]
  BY <1>1, <1>2, AppendProperties DEF Recs
<1>5. Recs' = 1 .. Len(log')
  BY DEF Recs
<1> QED
  BY <1>1, <1>3, <1>4, <1>5 DEF Recs, Recorded

\* What a start loads for a token is its latest alert, or there is none young
\* enough to matter.
LEMMA LastLoadedIs ==
    ASSUME IInv, NEW k \in Tokens
    PROVE  \/ /\ LastLoaded(k) = None
              /\ \A i \in Recs : log[i].token = k => now - log[i].ts > Longest
           \/ \E i \in Recs : /\ Latest(i, k)
                             /\ LastLoaded(k) = [ts |-> log[i].ts, tier |-> log[i].tier]
<1>1. now \in Nat /\ Longest \in Nat /\ \A i \in Recs : log[i].ts \in Nat
  BY Bounds, Rows DEF IInv
<1>2. CASE LoadedOf(k) = {}
  <2>1. LastLoaded(k) = None
    BY <1>2 DEF LastLoaded
  <2>2. \A i \in Recs : log[i].token = k => ~Loaded(i)
    BY <1>2 DEF LoadedOf, Recs
  <2> QED
    BY <1>1, <2>1, <2>2 DEF Loaded
<1>3. CASE LoadedOf(k) # {}
  <2> DEFINE i == CHOOSE i \in LoadedOf(k) : \A j \in LoadedOf(k) : j <= i
  <2>1. PICK m \in LoadedOf(k) : TRUE
    BY <1>3
  <2>2. m \in Recs /\ log[m].token = k /\ Loaded(m)
    BY <2>1 DEF LoadedOf, Recs
  <2>3. PICK l \in Recs : Latest(l, k)
    BY <2>2 DEF IInv, HasLatest
  <2>4. m <= l /\ log[m].ts <= log[l].ts
    BY <1>1, <2>2, <2>3 DEF IInv, LogOrdered, Latest, Recs
  <2>5. l \in LoadedOf(k)
    BY <1>1, <2>2, <2>3, <2>4 DEF LoadedOf, Loaded, Latest, Recs
  <2>6. \A j \in LoadedOf(k) : j <= l
    BY <2>3 DEF LoadedOf, Latest, Recs
  <2>7. i \in LoadedOf(k) /\ \A j \in LoadedOf(k) : j <= i
    BY <2>5, <2>6
  <2>8. LastLoaded(k) = [ts |-> log[i].ts, tier |-> log[i].tier]
    BY <1>3 DEF LastLoaded
  <2> HIDE DEF i
  <2>9. i = l
    BY <2>5, <2>6, <2>7 DEF LoadedOf
  <2> QED
    BY <2>3, <2>8, <2>9
<1> QED
  BY <1>2, <1>3

-----------------------------------------------------------------------------
(* The conjuncts of the invariant, one by one. *)

LEMMA TypeKept == ASSUME IInv, [Next]_vars PROVE TypeOK'
<1> USE DEF IInv, TypeOK
<1>1. CASE Tick
  BY <1>1 DEF Tick
<1>2. CASE Deliver
  <2>1. sending \in Sending /\ sending.alert \in Alerts
    BY <1>2 DEF Deliver, Sending
  <2>2. posts' \in Seq(Alerts)
    BY <1>2, <2>1, AppendProperties DEF Deliver
  <2>3. [sending EXCEPT !.delivered = TRUE] \in Sending
    BY <2>1 DEF Sending
  <2> QED
    BY <1>2, <2>2, <2>3 DEF Deliver
<1>3. CASE Recorded
  <2> DEFINE a == sending.alert
  <2>1. a \in Alerts /\ log' \in Seq(Alerts) /\ Len(log) + 1 \in Nat \ {0}
    BY <1>3, Grows
  <2>2. [ts |-> a.ts, tier |-> a.tier] \in Memory /\ [id |-> Len(log) + 1, ts |-> a.ts] \in Entry
    BY <2>1 DEF Alerts, Memory, Entry
  <2>3. a.token \in Tokens /\ ChainOf[a.token] \in Chains
    BY <2>1, AlertAssumption DEF Alerts
  <2>4. last' = [last EXCEPT ![a.token] = [ts |-> a.ts, tier |-> a.tier]]
        /\ sent' = [sent EXCEPT ![ChainOf[a.token]] =
                       @ \cup {[id |-> Len(log) + 1, ts |-> a.ts]}]
        /\ sending' = None /\ UNCHANGED <<now, up, posts>>
    BY <1>3 DEF Recorded
  <2> HIDE DEF a
  <2>5. last' \in [Tokens -> Memory \cup {None}]
    BY <2>2, <2>3, <2>4
  <2>6. sent' \in [Chains -> SUBSET Entry]
    BY <2>2, <2>3, <2>4
  <2> QED
    BY <2>1, <2>4, <2>5, <2>6
<1>4. CASE RolledBack \/ SendFails \/ Crash
  BY <1>4 DEF RolledBack, SendFails, Crash
<1>5. CASE RateLimited
  <2>1. sending \in Sending /\ sending' = [sending EXCEPT !.attempt = @ + 1]
    BY <1>5 DEF RateLimited
  <2>2. sending.attempt + 1 \in 1 .. MaxAttempts
    BY <1>5, <2>1, AlertAssumption DEF RateLimited, Sending
  <2>3. sending' \in Sending
    BY <2>1, <2>2 DEF Sending
  <2> QED
    BY <1>5, <2>3 DEF RateLimited
<1>6. CASE Restart
  <2>1. ASSUME NEW i \in Recs PROVE log[i] \in Alerts /\ Row(i) \in Entry
    BY <2>1, Rows
  <2>2. \A k \in Tokens : LastLoaded(k) \in Memory \cup {None}
    BY <2>1, LastLoadedIs, AlertAssumption DEF Alerts, Memory, Latest
  <2>5. sent' \in [Chains -> SUBSET Entry]
    BY <1>6, <2>1 DEF Restart, Recs, LoadedOn
  <2> QED
    BY <1>6, <2>2, <2>5 DEF Restart
<1>7. ASSUME NEW k \in Tokens, NEW tier \in Tiers,
             SkippedInCooldown(k, tier) \/ SkippedByCap(k, tier) \/ StartSend(k, tier)
      PROVE  TypeOK'
  <2>1. CASE SkippedInCooldown(k, tier)
    BY <2>1 DEF SkippedInCooldown, vars
  <2>2. ASSUME Prune(k, now) PROVE sent' \in [Chains -> SUBSET Entry]
    BY <2>2, AlertAssumption DEF Prune, Window
  <2>3. CASE SkippedByCap(k, tier)
    BY <2>2, <2>3 DEF SkippedByCap
  <2>4. CASE StartSend(k, tier)
    <3>1. [token |-> k, tier |-> tier, ts |-> now] \in Alerts
      BY DEF Alerts
    <3>2. 1 \in 1 .. MaxAttempts
      BY AlertAssumption
    <3>3. sending' \in Sending
      BY <2>4, <3>1, <3>2 DEF StartSend, Sending
    <3> QED
      BY <2>2, <2>4, <3>3 DEF StartSend
  <2> QED
    BY <1>7, <2>1, <2>3, <2>4
<1>8. CASE UNCHANGED vars
  BY <1>8 DEF vars
<1> QED
  BY <1>1, <1>2, <1>3, <1>4, <1>5, <1>6, <1>7, <1>8 DEF Next

\* A new row comes last, and its rank is above those of its token's recent ones.
LEMMA LogKept == ASSUME IInv, [Next]_vars PROVE LogOrdered' /\ Ascending' /\ HasLatest'
<1>1. /\ now' \in Nat /\ now <= now' /\ now \in Nat
      /\ log' = log \/ Recorded
  BY Changes, Rows DEF IInv
<1>2. \A i \in Recs : log[i].ts \in Nat
  BY Rows DEF IInv
<1>3. CASE log' = log
  <2>1. Recs' = Recs
    BY <1>3 DEF Recs
  <2>2. LogOrdered'
    BY <1>1, <1>2, <1>3, <2>1 DEF IInv, LogOrdered
  <2>3. Ascending'
    BY <1>3, <2>1 DEF IInv, Ascending
  <2>4. HasLatest'
    BY <1>3, <2>1 DEF IInv, HasLatest, Latest
  <2> QED
    BY <2>2, <2>3, <2>4
<1>4. CASE Recorded
  <2> DEFINE a == sending.alert
             n == Len(log) + 1
  <2>1. /\ a \in Alerts /\ n \in Nat
        /\ log'[n] = a /\ \A i \in Recs : i < n /\ log'[i] = log[i]
        /\ Recs' = Recs \cup {n} /\ n \notin Recs /\ now' = now
    BY <1>4, Grows DEF IInv
  <2>2. /\ a.ts <= now /\ \A i \in Recs : log[i].ts <= a.ts
        /\ Log!OutOfCooldown(a.token, a.tier, a.ts)
    BY <1>4 DEF IInv, SendingFits, Recorded
  <2>3. a.ts \in Nat
    BY <2>1 DEF Alerts
  <2>4. \A i \in Recs : log[i].token = a.token /\ a.ts - log[i].ts < Cooldown
                        => Rank[log[i].tier] < Rank[a.tier]
    <3>1. \A i \in 1 .. Len(log) :
              log[i].token = a.token /\ a.ts - log[i].ts < Cooldown => Rank[a.tier] > Rank[log[i].tier]
      BY <2>2 DEF Log!OutOfCooldown
    <3>2. a.tier \in Tiers /\ \A i \in Recs : log[i].tier \in Tiers
      BY <2>1, Rows DEF Alerts, IInv
    <3> QED
      BY <3>1, <3>2, Bounds DEF Recs
  <2> HIDE DEF a, n
  <2>5. LogOrdered'
    <3>1. \A i \in Recs' : log'[i].ts <= now'
      BY <2>1, <2>2 DEF IInv, LogOrdered
    <3>2. ASSUME NEW i \in Recs', NEW j \in Recs', i < j PROVE log'[i].ts <= log'[j].ts
      <4>1. i \in Recs /\ i \in Int
        BY <2>1, <3>2 DEF Recs
      <4> QED
        BY <2>1, <2>2, <3>2, <4>1 DEF IInv, LogOrdered
    <3> QED
      BY <3>1, <3>2 DEF LogOrdered
  <2>6. Ascending'
    <3>1. ASSUME NEW i \in Recs', NEW j \in Recs', i < j,
                 log'[i].token = log'[j].token, log'[j].ts - log'[i].ts < Cooldown
          PROVE  Rank[log'[i].tier] < Rank[log'[j].tier]
      <4>1. i \in Recs
        BY <2>1, <3>1 DEF Recs
      <4> QED
        BY <2>1, <2>4, <3>1, <4>1 DEF IInv, Ascending
    <3> QED
      BY <3>1 DEF Ascending
  <2>7. HasLatest'
    <3>1. \A j \in Recs' : j <= n
      BY <2>1 DEF Recs
    <3>2. SUFFICES ASSUME NEW i \in Recs'
                   PROVE  \E l \in Recs' : /\ log'[l].token = log'[i].token
                                          /\ \A j \in Recs' : log'[j].token = log'[i].token => j <= l
      BY DEF HasLatest, Latest
    <3>3. CASE log'[i].token = a.token
      BY <2>1, <3>1, <3>3
    <3>4. CASE log'[i].token # a.token
      <4>1. i \in Recs /\ log'[i] = log[i]
        BY <2>1, <3>4
      <4>2. PICK l \in Recs : Latest(l, log[i].token)
        BY <4>1 DEF IInv, HasLatest
      <4>3. log[l].token = log[i].token /\ \A j \in Recs : log[j].token = log[i].token => j <= l
        BY <4>2 DEF Latest
      <4> QED
        BY <2>1, <3>4, <4>1, <4>3
    <3> QED
      BY <3>3, <3>4
  <2> QED
    BY <2>5, <2>6, <2>7
<1> QED
  BY <1>1, <1>3, <1>4

LEMMA LastKept == ASSUME IInv, [Next]_vars PROVE LastKnows'
<1> USE DEF IInv
<1>1. /\ now' \in Nat /\ now <= now' /\ now \in Nat
      /\ log' = log \/ Recorded
      /\ UNCHANGED <<last, up>> \/ Recorded \/ Crash \/ Restart
  BY Changes, Rows
<1>2. \A i \in Recs : log[i].ts \in Nat
  BY Rows
<1>3. Longest \in Nat
  BY Bounds
<1>4. CASE Recorded
  <2> DEFINE a == sending.alert
             n == Len(log) + 1
             m == [ts |-> a.ts, tier |-> a.tier]
  <2>1. /\ a \in Alerts /\ n \in Nat
        /\ log'[n] = a /\ \A i \in Recs : i < n /\ log'[i] = log[i]
        /\ Recs' = Recs \cup {n} /\ n \notin Recs /\ now' = now /\ up' = up
    BY <1>4, Grows
  <2>2. last' = [last EXCEPT ![a.token] = m]
    BY <1>4 DEF Recorded
  <2>3. last \in [Tokens -> Memory \cup {None}] /\ a.token \in Tokens /\ m \in Memory
    BY <2>1 DEF TypeOK, Alerts, Memory
  <2>4. up /\ up'
    BY <1>4, <2>1 DEF SendingFits, Recorded
  <2>5. m = [ts |-> log'[n].ts, tier |-> log'[n].tier]
    BY <2>1
  <2> HIDE DEF a, n, m
  <2>6. ASSUME NEW k \in Tokens, k = a.token
        PROVE  /\ last'[k] # None
               /\ \E i \in Recs' : Latest(i, k)' /\ last'[k] = [ts |-> log'[i].ts, tier |-> log'[i].tier]
    <3>1. last'[k] = m /\ m # None
      BY <2>2, <2>3, <2>6, NoneAssumption
    <3>2. \A j \in Recs' : j <= n
      BY <2>1 DEF Recs
    <3>3. PICK p \in Recs' : p = n
      BY <2>1
    <3>4. Latest(p, k)'
      BY <2>1, <2>6, <3>2, <3>3 DEF Latest
    <3> QED
      BY <2>5, <3>1, <3>3, <3>4
  <2>7. ASSUME NEW k \in Tokens, k # a.token, NEW i \in Recs, Latest(i, k)
        PROVE  Latest(i, k)'
    BY <2>1, <2>7 DEF Latest
  <2>8. ASSUME NEW k \in Tokens, k # a.token
        PROVE  \/ last'[k] = None /\ \A i \in Recs' : log'[i].token = k => now' - log'[i].ts > Longest
               \/ /\ last'[k] # None
                  /\ \E i \in Recs' : Latest(i, k)' /\ last'[k] = [ts |-> log'[i].ts, tier |-> log'[i].tier]
    <3>1. last'[k] = last[k]
      BY <2>2, <2>3, <2>8
    <3>2. CASE last[k] = None
      BY <2>1, <2>4, <2>8, <3>1, <3>2 DEF LastKnows
    <3>3. CASE last[k] # None
      <4>1. PICK i \in Recs : Latest(i, k) /\ last[k] = [ts |-> log[i].ts, tier |-> log[i].tier]
        BY <3>3 DEF LastKnows
      <4>2. Latest(i, k)' /\ i \in Recs' /\ log'[i] = log[i]
        BY <2>1, <2>7, <2>8, <4>1
      <4> QED
        BY <3>1, <3>3, <4>1, <4>2
    <3> QED
      BY <3>2, <3>3
  <2> QED
    BY <2>4, <2>6, <2>8 DEF LastKnows
<1>5. CASE UNCHANGED <<last, up, log>>
  <2>1. Recs' = Recs
    BY <1>5 DEF Recs
  <2>2. ASSUME NEW k \in Tokens, NEW i \in Recs, Latest(i, k) PROVE Latest(i, k)'
    BY <1>5, <2>1, <2>2 DEF Latest
  <2>3. ASSUME NEW i \in Recs, now - log[i].ts > Longest PROVE now' - log'[i].ts > Longest
    BY <1>1, <1>2, <1>3, <1>5, <2>3
  <2> QED
    BY <1>5, <2>1, <2>2, <2>3 DEF LastKnows
<1>6. CASE Crash
  BY <1>6 DEF Crash, LastKnows
<1>7. CASE Restart
  <2>1. /\ up' /\ now' = now /\ log' = log /\ Recs' = Recs
        /\ last' = [k \in Tokens |-> LastLoaded(k)]
    BY <1>7 DEF Restart, Recs
  <2>2. ASSUME NEW k \in Tokens, NEW i \in Recs, Latest(i, k)
        PROVE  Latest(i, k)' /\ [ts |-> log[i].ts, tier |-> log[i].tier] # None
    <3>1. log[i].ts \in Nat /\ log[i].tier \in Tiers
      BY Rows
    <3>2. [ts |-> log[i].ts, tier |-> log[i].tier] \in Memory
      BY <3>1 DEF Memory
    <3> QED
      BY <2>1, <2>2, <3>2, NoneAssumption DEF Latest
  <2>3. ASSUME NEW k \in Tokens
        PROVE  \/ last'[k] = None /\ \A i \in Recs' : log'[i].token = k => now' - log'[i].ts > Longest
               \/ /\ last'[k] # None
                  /\ \E i \in Recs' : Latest(i, k)' /\ last'[k] = [ts |-> log'[i].ts, tier |-> log'[i].tier]
    BY <2>1, <2>2, <2>3, LastLoadedIs
  <2> QED
    BY <2>1, <2>3 DEF LastKnows
<1> QED
  BY <1>1, <1>4, <1>5, <1>6, <1>7 DEF Crash, Restart

LEMMA SentKept == ASSUME IInv, [Next]_vars PROVE SentKnows'
<1> USE DEF IInv
<1>1. /\ now' \in Nat /\ now <= now' /\ now \in Nat
      /\ log' = log \/ Recorded
      /\ \/ UNCHANGED <<sent, up>> \/ Recorded \/ Crash \/ Restart
         \/ up' = up /\ now' = now /\ \E k \in Tokens : Prune(k, now)
  BY Changes, Rows
<1>2. \A i \in Recs : log[i].ts \in Nat /\ Row(i).ts = log[i].ts
  BY Rows DEF Row
<1>3. Hour \in Nat /\ Longest \in Nat /\ Hour <= Longest
  BY Bounds
<1>4. CASE Recorded
  <2> DEFINE a == sending.alert
             n == Len(log) + 1
             e == [id |-> Len(log) + 1, ts |-> a.ts]
  <2>1. /\ a \in Alerts /\ n \in Nat
        /\ log'[n] = a /\ \A i \in Recs : i < n /\ log'[i] = log[i]
        /\ Recs' = Recs \cup {n} /\ n \notin Recs /\ now' = now /\ up' = up
    BY <1>4, Grows
  <2>2. sent' = [sent EXCEPT ![ChainOf[a.token]] = @ \cup {e}]
    BY <1>4 DEF Recorded
  <2>3. sent \in [Chains -> SUBSET Entry] /\ ChainOf[a.token] \in Chains
    BY <2>1, Bounds DEF TypeOK, Alerts
  <2>4. e = [id |-> n, ts |-> log'[n].ts] /\ up
    BY <1>4, <2>1 DEF SendingFits, Recorded
  <2>5. \A i \in Recs : Row(i) = [id |-> i, ts |-> log'[i].ts]
    BY <2>1 DEF Row
  <2> HIDE DEF a, n, e
  <2>6. ASSUME NEW ch \in Chains
        PROVE  /\ \A x \in sent'[ch] :
                      \E i \in Recs' : ChainOf[log'[i].token] = ch /\ x = [id |-> i, ts |-> log'[i].ts]
               /\ \A i \in Recs' : ChainOf[log'[i].token] = ch /\ now' - log'[i].ts < Hour
                                   => [id |-> i, ts |-> log'[i].ts] \in sent'[ch]
    <3>1. sent'[ch] = IF ch = ChainOf[a.token] THEN sent[ch] \cup {e} ELSE sent[ch]
      BY <2>2, <2>3
    <3>2. \A x \in sent[ch] :
              \E i \in Recs : ChainOf[log'[i].token] = ch /\ x = [id |-> i, ts |-> log'[i].ts]
      BY <2>1, <2>4, <2>5 DEF SentKnows
    <3>3. \A i \in Recs : ChainOf[log'[i].token] = ch /\ now' - log'[i].ts < Hour
                          => [id |-> i, ts |-> log'[i].ts] \in sent[ch]
      BY <2>1, <2>4, <2>5 DEF SentKnows
    <3> QED
      BY <2>1, <2>4, <3>1, <3>2, <3>3
  <2> QED
    BY <2>6 DEF SentKnows, Row
<1>5. ASSUME log' = log, UNCHANGED <<sent, up>>
      PROVE  SentKnows'
  <2>1. Recs' = Recs /\ \A i \in Recs : Row(i)' = Row(i)
    BY <1>5 DEF Recs, Row
  <2>2. ASSUME NEW i \in Recs, now' - log'[i].ts < Hour PROVE now - log[i].ts < Hour
    BY <1>1, <1>2, <1>3, <1>5, <2>2
  <2> QED
    BY <1>5, <2>1, <2>2 DEF SentKnows
<1>6. CASE Crash
  BY <1>6 DEF Crash, SentKnows
<1>7. CASE Restart
  <2>1. /\ up' /\ now' = now /\ log' = log /\ Recs' = Recs
        /\ sent' = [ch \in Chains |-> {Row(i) : i \in LoadedOn(ch)}]
    BY <1>7 DEF Restart, Recs
  <2>2. \A i \in Recs : Row(i)' = Row(i)
    BY <2>1 DEF Row
  <2>3. ASSUME NEW ch \in Chains, NEW i \in Recs, ChainOf[log[i].token] = ch, now - log[i].ts < Hour
        PROVE  i \in LoadedOn(ch)
    BY <1>1, <1>2, <1>3, <2>3 DEF LoadedOn, Loaded, Recs
  <2>4. \A ch \in Chains : \A i \in LoadedOn(ch) : i \in Recs /\ ChainOf[log[i].token] = ch
    BY DEF LoadedOn, Recs
  <2> QED
    BY <2>1, <2>2, <2>3, <2>4 DEF SentKnows
<1>8. ASSUME NEW k \in Tokens, up' = up, now' = now, log' = log, Prune(k, now)
      PROVE  SentKnows'
  <2>1. sent' = [sent EXCEPT ![ChainOf[k]] = Window(ChainOf[k], now)]
    BY <1>8 DEF Prune
  <2>2. sent \in [Chains -> SUBSET Entry]
    BY DEF TypeOK
  <2>3. Recs' = Recs /\ \A i \in Recs : Row(i)' = Row(i)
    BY <1>8 DEF Recs, Row
  <2>4. ASSUME NEW ch \in Chains
        PROVE  sent'[ch] \subseteq sent[ch] /\ \A e \in sent[ch] : now - e.ts < Hour => e \in sent'[ch]
    BY <2>1, <2>2 DEF Window
  <2> QED
    BY <1>2, <1>8, <2>3, <2>4 DEF SentKnows
<1> QED
  <2>1. CASE Recorded
    BY <1>4, <2>1
  <2>2. CASE log' = log
    BY <1>1, <1>4, <1>5, <1>6, <1>7, <1>8, <2>2
  <2> QED
    BY <1>1, <2>1, <2>2

-----------------------------------------------------------------------------
(* What the memory lets through, the table allows. *)

\* In the cooldown of the remembered alert, which is the latest and ranks
\* highest of those it is in the cooldown of, only an upgrade passes.
LEMMA PassesAsTheTable ==
    ASSUME IInv, up, NEW k \in Tokens, NEW tier \in Tiers, PassesCooldown(k, tier, now)
    PROVE  Log!OutOfCooldown(k, tier, now)
<1> USE DEF IInv
<1>1. now \in Nat /\ Cooldown \in Nat /\ Longest \in Nat /\ Cooldown <= Longest
  BY Bounds, Rows
<1>2. SUFFICES ASSUME NEW j \in Recs, log[j].token = k, now - log[j].ts < Cooldown
               PROVE  Rank[tier] > Rank[log[j].tier]
  BY DEF Log!OutOfCooldown, Recs
<1>3. \A i \in Recs : log[i].ts \in Nat /\ log[i].ts <= now /\ Rank[log[i].tier] \in Nat /\ i \in Nat
  BY Rows, Bounds DEF LogOrdered
<1>4. last[k] # None
  BY <1>1, <1>2, <1>3 DEF LastKnows
<1>5. PICK i \in Recs : Latest(i, k) /\ last[k] = [ts |-> log[i].ts, tier |-> log[i].tier]
  BY <1>4 DEF LastKnows
<1>6. j <= i /\ log[i].token = k
  BY <1>2, <1>5 DEF Latest
<1>7. log[j].ts <= log[i].ts /\ now - log[i].ts < Cooldown /\ log[i].ts - log[j].ts < Cooldown
  BY <1>1, <1>2, <1>3, <1>6 DEF LogOrdered
<1>8. Rank[log[i].tier] < Rank[tier]
  <2>1. last[k].ts = log[i].ts /\ last[k].tier = log[i].tier
    BY <1>5
  <2>2. Rank[tier] \in Nat
    BY Bounds
  <2> QED
    BY <1>3, <1>4, <1>7, <2>1, <2>2 DEF PassesCooldown, InCooldown, Upgrades
<1>9. CASE j = i
  BY <1>8, <1>9
<1>10. CASE j < i
  <2>1. Rank[log[j].tier] < Rank[log[i].tier]
    BY <1>2, <1>6, <1>7, <1>10 DEF Ascending
  <2> QED
    BY <1>3, <1>8, <2>1, Bounds
<1> QED
  BY <1>3, <1>6, <1>9, <1>10

\* The pruned list of a chain has as many entries as the table has alerts of
\* the chain in the last hour.
LEMMA WindowAsTheTable ==
    ASSUME IInv, up, NEW ch \in Chains
    PROVE  Cardinality(Window(ch, now)) = Cardinality(Log!RecentOn(ch, now))
<1> DEFINE R == Log!RecentOn(ch, now)
           W == Window(ch, now)
           f == [i \in R |-> Row(i)]
<1>1. R = {i \in Recs : ChainOf[log[i].token] = ch /\ now - log[i].ts < Hour}
  BY DEF Log!RecentOn, Recs
<1>2. W = {e \in sent[ch] : now - e.ts < Hour}
  BY DEF Window
<1>3. \A i \in Recs : Row(i).ts = log[i].ts /\ Row(i).id = i
  BY DEF Row
<1>4. \A i \in R : Row(i) \in W
  BY <1>1, <1>2, <1>3 DEF IInv, SentKnows
<1>5. \A e \in W : \E i \in R : e = Row(i)
  BY <1>1, <1>2, <1>3 DEF IInv, SentKnows
<1>6. IsFiniteSet(R)
  <2>1. IsFiniteSet(Recs)
    BY FS_Interval, Rows DEF Recs, IInv
  <2> QED
    BY <1>1, <2>1, FS_Subset
<1> HIDE DEF R, W
<1>7. f \in Bijection(R, W)
  <2>1. f \in [R -> W]
    BY <1>4
  <2>2. \A i, j \in R : f[i] = f[j] => i = j
    BY <1>1, <1>3
  <2>3. \A e \in W : \E i \in R : f[i] = e
    BY <1>5
  <2> HIDE DEF f
  <2> QED
    BY <2>1, <2>2, <2>3, Fun_IsBij
<1>8. ExistsBijection(R, W)
  BY <1>7 DEF ExistsBijection
<1> QED
  BY <1>6, <1>8, FS_Bijection DEF R, W

LEMMA SendingKept == ASSUME IInv, [Next]_vars PROVE SendingFits' /\ PostsPast'
<1> USE DEF IInv
<1>1. /\ now' \in Nat /\ now <= now' /\ now \in Nat
      /\ log' = log \/ Recorded
      /\ posts' = posts \/ Deliver
      /\ \/ sending' = None
         \/ Deliver
         \/ \E k \in Tokens, tier \in Tiers : StartSend(k, tier)
         \/ sending # None /\ sending' # None /\ sending'.alert = sending.alert
            /\ UNCHANGED <<log, posts, up>>
  BY Changes, Rows
<1>2. posts \in Seq(Alerts)
  BY DEF TypeOK
<1>3. Len(posts) \in Nat /\ \A i \in 1 .. Len(posts) : posts[i].ts \in Nat
  BY <1>2, Cards
<1>4. CASE Deliver
  <2> DEFINE a == sending.alert
  <2>1. /\ sending # None /\ sending' = [sending EXCEPT !.delivered = TRUE]
        /\ posts' = Append(posts, a) /\ UNCHANGED <<now, up, log>>
    BY <1>4 DEF Deliver
  <2>2. sending \in Sending /\ a \in Alerts
    BY <2>1 DEF TypeOK, Sending
  <2>3. sending'.alert = a
    BY <2>1, <2>2 DEF Sending
  <2>4. /\ up /\ a.ts <= now
        /\ \A i \in Recs : log[i].ts <= a.ts
        /\ \A i \in 1 .. Len(posts) : posts[i].ts <= a.ts
        /\ Log!OutOfCooldown(a.token, a.tier, a.ts)
        /\ Log!BelowHourlyCap(a.token, a.tier, a.ts)
    BY <2>1 DEF SendingFits
  <2>5. a.ts \in Nat
    BY <2>2 DEF Alerts
  <2>6. \A i \in 1 .. Len(posts') : posts'[i].ts <= a.ts
    <3>1. /\ Len(posts') = Len(posts) + 1 /\ posts'[Len(posts) + 1] = a
          /\ \A i \in 1 .. Len(posts) : posts'[i] = posts[i]
      BY <1>2, <2>1, <2>2, AppendProperties
    <3> QED
      BY <1>3, <2>4, <2>5, <3>1
  <2>7. PICK b : b = a
    OBVIOUS
  <2>8. (Log!OutOfCooldown(b.token, b.tier, b.ts) /\ Log!BelowHourlyCap(b.token, b.tier, b.ts))'
    <3>1. Log!OutOfCooldown(b.token, b.tier, b.ts) /\ Log!BelowHourlyCap(b.token, b.tier, b.ts)
      BY <2>4, <2>7
    <3> HIDE DEF a
    <3> QED
      BY <2>1, <3>1 DEF Log!OutOfCooldown, Log!BelowHourlyCap, Log!RecentOn
  <2>9. PostsPast'
    <3>1. Len(posts') \in Nat /\ \A i \in 1 .. Len(posts') : posts'[i].ts \in Nat
      <4>1. posts' \in Seq(Alerts)
        BY TypeKept DEF TypeOK
      <4> QED
        BY <4>1, Cards
    <3> QED
      BY <1>1, <2>1, <2>4, <2>5, <2>6, <3>1 DEF PostsPast
  <2>10. Recs' = Recs
    BY <2>1 DEF Recs
  <2> HIDE DEF a
  <2>11. sending'.alert = b
    BY <2>3, <2>7
  <2>12. /\ up' /\ b.ts <= now' /\ \A i \in Recs' : log'[i].ts <= b.ts
         /\ \A i \in 1 .. Len(posts') : posts'[i].ts <= b.ts
    BY <2>1, <2>4, <2>6, <2>7, <2>10
  <2>13. SendingFits'
    BY <2>8, <2>11, <2>12 DEF SendingFits
  <2> QED
    BY <2>9, <2>13
<1>5. ASSUME posts' = posts PROVE PostsPast'
  BY <1>1, <1>3, <1>5 DEF PostsPast
<1>6. ASSUME NEW k \in Tokens, NEW tier \in Tiers, StartSend(k, tier)
      PROVE  SendingFits'
  <2>1. /\ up /\ PassesCooldown(k, tier, now) /\ ~HitsCap(k, tier, now)
        /\ sending' = [alert |-> [token |-> k, tier |-> tier, ts |-> now],
                       attempt |-> 1, delivered |-> FALSE]
        /\ UNCHANGED <<now, up, last, log, posts>>
    BY <1>6 DEF StartSend
  <2>2. Log!OutOfCooldown(k, tier, now)
    BY <2>1, PassesAsTheTable
  <2>3. Log!BelowHourlyCap(k, tier, now)
    <3>1. ChainOf[k] \in Chains /\ MaxPerHour \in Nat
      BY Bounds
    <3>2. Cardinality(Window(ChainOf[k], now)) = Cardinality(Log!RecentOn(ChainOf[k], now))
      BY <2>1, <3>1, WindowAsTheTable
    <3>3. Cardinality(Log!RecentOn(ChainOf[k], now)) \in Nat
      <4>1. IsFiniteSet(Recs)
        <5>1. Len(log) \in Int /\ 1 \in Int
          BY Rows
        <5> QED
          BY <5>1, FS_Interval DEF Recs
      <4>2. Log!RecentOn(ChainOf[k], now) \in SUBSET Recs
        BY DEF Log!RecentOn, Recs
      <4> QED
        BY <4>1, <4>2, FS_Subset, FS_CardinalityType
    <3> QED
      BY <2>1, <3>1, <3>2, <3>3, SameCount DEF HitsCap, Log!BelowHourlyCap
  <2>4. PICK t : t = now
    OBVIOUS
  <2>5. (Log!OutOfCooldown(k, tier, t) /\ Log!BelowHourlyCap(k, tier, t))'
    BY <2>1, <2>2, <2>3, <2>4 DEF Log!OutOfCooldown, Log!BelowHourlyCap, Log!RecentOn
  <2>6. sending'.alert.token = k /\ sending'.alert.tier = tier /\ sending'.alert.ts = t
    BY <2>1, <2>4
  <2>7. \A i \in Recs' : log'[i].ts <= t
    BY <2>1, <2>4 DEF Recs, LogOrdered
  <2>8. \A i \in 1 .. Len(posts') : posts'[i].ts <= t
    BY <2>1, <2>4 DEF PostsPast
  <2>9. up' /\ t <= now'
    BY <1>1, <2>1, <2>4
  <2> QED
    BY <2>5, <2>6, <2>7, <2>8, <2>9 DEF SendingFits
<1>7. ASSUME sending # None, sending' # None, sending'.alert = sending.alert,
             UNCHANGED <<log, posts, up>>
      PROVE  SendingFits'
  <2>1. PICK b : b = sending.alert
    OBVIOUS
  <2>2. b.ts \in Nat
    BY <1>7, <2>1 DEF TypeOK, Sending, Alerts
  <2>3. /\ up /\ b.ts <= now
        /\ \A i \in Recs : log[i].ts <= b.ts
        /\ \A i \in 1 .. Len(posts) : posts[i].ts <= b.ts
        /\ Log!OutOfCooldown(b.token, b.tier, b.ts)
        /\ Log!BelowHourlyCap(b.token, b.tier, b.ts)
    BY <1>7, <2>1 DEF SendingFits
  <2>4. (Log!OutOfCooldown(b.token, b.tier, b.ts) /\ Log!BelowHourlyCap(b.token, b.tier, b.ts))'
    BY <1>7, <2>3 DEF Log!OutOfCooldown, Log!BelowHourlyCap, Log!RecentOn
  <2>5. Recs' = Recs /\ sending'.alert = b
    BY <1>7, <2>1 DEF Recs
  <2>6. /\ up' /\ b.ts <= now' /\ \A i \in Recs' : log'[i].ts <= b.ts
        /\ \A i \in 1 .. Len(posts') : posts'[i].ts <= b.ts
    BY <1>1, <1>7, <2>2, <2>3, <2>5
  <2> QED
    BY <2>4, <2>5, <2>6 DEF SendingFits
<1>8. ASSUME sending' = None PROVE SendingFits'
  BY <1>8 DEF SendingFits
<1> QED
  BY <1>1, <1>4, <1>5, <1>6, <1>7, <1>8

\* A card whose alert is in the table was posted before the table allowed the
\* next one; an alert that enters the table was posted last.
LEMMA PingsKept == ASSUME IInv, [Next]_vars PROVE PingsExplained'
<1> USE DEF IInv
<1>1. (log' = log \/ Recorded) /\ (posts' = posts \/ Deliver)
  BY Changes
<1>2. posts \in Seq(Alerts)
  BY DEF TypeOK
<1>3. /\ Len(posts) \in Nat
      /\ \A i \in 1 .. Len(posts) : posts[i].ts \in Nat /\ posts[i].tier \in Tiers
  BY <1>2, Cards
<1>4. CASE log' = log /\ posts' = posts
  BY <1>4 DEF PingsExplained
<1>5. CASE Recorded
  <2> DEFINE a == sending.alert
             n == Len(log) + 1
  <2>1. /\ a \in Alerts /\ n \in Nat
        /\ log'[n] = a /\ \A i \in Recs : i < n /\ log'[i] = log[i]
        /\ Recs' = Recs \cup {n} /\ posts' = posts
    BY <1>5, Grows
  <2>2. \A i \in 1 .. Len(posts) : posts[i].ts <= a.ts
    BY <1>5 DEF SendingFits, Recorded
  <2>3. a.ts \in Nat
    BY <2>1 DEF Alerts
  <2> HIDE DEF a, n
  <2>4. ASSUME NEW i \in 1 .. Len(posts), NEW j \in 1 .. Len(posts),
               posts[i].token = posts[j].token, posts[i].ts < posts[j].ts,
               posts[j].ts - posts[i].ts < Cooldown,
               Rank[posts[j].tier] <= Rank[posts[i].tier],
               NEW l \in Recs'
        PROVE  log'[l] # posts[i]
    <3>1. CASE l \in Recs
      BY <2>1, <2>4, <3>1 DEF PingsExplained, Recs
    <3>2. CASE l = n
      BY <1>3, <2>1, <2>2, <2>3, <2>4, <3>2
    <3> QED
      BY <2>1, <3>1, <3>2
  <2>5. Recs' = 1 .. Len(log')
    BY DEF Recs
  <2> QED
    BY <2>1, <2>4, <2>5 DEF PingsExplained
<1>6. CASE Deliver
  <2> DEFINE a == sending.alert
             n == Len(posts) + 1
  <2>1. sending # None /\ posts' = Append(posts, a) /\ log' = log
    BY <1>6 DEF Deliver
  <2>2. a \in Alerts
    BY <2>1 DEF TypeOK, Sending
  <2>3. /\ Len(posts') = n /\ posts'[n] = a
        /\ \A i \in 1 .. Len(posts) : posts'[i] = posts[i]
    BY <1>2, <2>1, <2>2, AppendProperties
  <2>4. /\ \A i \in 1 .. Len(posts) : posts[i].ts <= a.ts
        /\ Log!OutOfCooldown(a.token, a.tier, a.ts)
    BY <2>1 DEF SendingFits
  <2>5. a.ts \in Nat /\ Rank[a.tier] \in Nat
    BY <2>2, Bounds DEF Alerts
  <2> HIDE DEF a
  <2>6. ASSUME NEW i \in 1 .. n, NEW j \in 1 .. n,
               posts'[i].token = posts'[j].token, posts'[i].ts < posts'[j].ts,
               posts'[j].ts - posts'[i].ts < Cooldown,
               Rank[posts'[j].tier] <= Rank[posts'[i].tier],
               NEW l \in Recs
        PROVE  log[l] # posts'[i]
    <3>1. i \in 1 .. Len(posts)
      BY <1>3, <2>3, <2>4, <2>5, <2>6
    <3>2. CASE j \in 1 .. Len(posts)
      BY <2>3, <2>6, <3>1, <3>2 DEF PingsExplained, Recs
    <3>3. CASE j = n
      <4>1. posts'[j] = a /\ posts'[i] = posts[i]
        BY <2>3, <3>1, <3>3
      <4>2. posts[i].token = a.token /\ a.ts - posts[i].ts < Cooldown
            /\ Rank[a.tier] <= Rank[posts[i].tier]
        BY <2>6, <4>1
      <4>3. SUFFICES ASSUME log[l] = posts[i] PROVE FALSE
        BY <4>1
      <4>4. Rank[a.tier] > Rank[log[l].tier]
        BY <2>4, <4>2, <4>3 DEF Log!OutOfCooldown, Recs
      <4>5. Rank[log[l].tier] \in Nat
        BY Rows, Bounds
      <4> QED
        BY <2>5, <4>2, <4>3, <4>4, <4>5
    <3> QED
      BY <1>3, <3>2, <3>3
  <2> QED
    BY <2>1, <2>3, <2>6 DEF PingsExplained, Recs
<1> QED
  BY <1>1, <1>4, <1>5, <1>6 DEF Recorded, Deliver

-----------------------------------------------------------------------------
(* The theorems. *)

LEMMA InitHolds == Init => IInv
<1> SUFFICES ASSUME Init PROVE IInv
  OBVIOUS
<1>1. /\ now = 0 /\ up = TRUE /\ sending = None /\ log = <<>> /\ posts = <<>>
      /\ last = [k \in Tokens |-> None] /\ sent = [ch \in Chains |-> {}]
  BY DEF Init
<1>2. TypeOK
  BY <1>1 DEF TypeOK
<1>3. Recs = {} /\ 1 .. Len(posts) = {}
  BY <1>1 DEF Recs
<1>4. LogOrdered /\ Ascending /\ HasLatest
  BY <1>3 DEF LogOrdered, Ascending, HasLatest
<1>5. LastKnows /\ SentKnows
  BY <1>1, <1>3 DEF LastKnows, SentKnows
<1>6. SendingFits /\ PostsPast /\ PingsExplained
  BY <1>1, <1>3 DEF SendingFits, PostsPast, PingsExplained
<1> QED
  BY <1>2, <1>4, <1>5, <1>6 DEF IInv

\* The invariant holds in every reachable state (consider, load and send of
\* alerts.py, in any interleaving with Discord's answers and crashes).
THEOREM Invariance == Spec => []IInv
<1>1. Init => IInv
  BY InitHolds
<1>2. IInv /\ [Next]_vars => IInv'
  BY TypeKept, LogKept, LastKept, SentKept, SendingKept, PingsKept DEF IInv
<1> QED
  BY <1>1, <1>2, PTL DEF Spec

\* Every variable keeps its type.
THEOREM TypeCorrect == Spec => []TypeOK
<1>1. IInv => TypeOK
  BY DEF IInv
<1> QED
  BY <1>1, Invariance, PTL

\* A token is held back only for an alert in the table: a failed, lost or
\* rolled-back send does not silence it, nor does a restart.
THEOREM SilencedHolds == Spec => []SilencedOnlyByRecord
<1>1. IInv => SilencedOnlyByRecord
  <2> SUFFICES ASSUME IInv, NEW k \in Tokens, last[k] # None
               PROVE  \E i \in 1 .. Len(log) :
                          /\ log[i].token = k
                          /\ log[i].ts = last[k].ts /\ log[i].tier = last[k].tier
    BY DEF SilencedOnlyByRecord, InCooldown
  <2>1. PICK i \in Recs : Latest(i, k) /\ last[k] = [ts |-> log[i].ts, tier |-> log[i].tier]
    BY DEF IInv, LastKnows
  <2> QED
    BY <2>1 DEF Latest, Recs
<1> QED
  BY <1>1, Invariance, PTL

\* A card repeated within the cooldown repeats one that was never recorded.
THEOREM PingsHold == Spec => []PingsExplained
<1>1. IInv => PingsExplained
  BY DEF IInv
<1> QED
  BY <1>1, Invariance, PTL

-----------------------------------------------------------------------------
\* A step records an alert that the table allows, lets time pass, or is none
\* of the table's business.
LEMMA StepRefines == ASSUME IInv, [Next]_vars PROVE [Log!Next]_(Log!vars)
<1> USE DEF IInv
<1>1. CASE Recorded
  <2> DEFINE a == sending.alert
  <2>1. /\ sending # None /\ a \in Alerts /\ log' = Append(log, a) /\ now' = now
    BY <1>1, Grows DEF Recorded
  <2>2. /\ a.ts <= now
        /\ Log!OutOfCooldown(a.token, a.tier, a.ts)
        /\ Log!BelowHourlyCap(a.token, a.tier, a.ts)
    BY <2>1 DEF SendingFits
  <2>3. /\ a.token \in Tokens /\ a.tier \in Tiers /\ a.ts \in Nat
        /\ a = [token |-> a.token, tier |-> a.tier, ts |-> a.ts]
    BY <2>1 DEF Alerts
  <2>4. a.ts \in 0 .. now
    BY <2>2, <2>3, Rows
  <2> HIDE DEF a
  <2>5. Log!Alert(a.token, a.tier, a.ts)
    BY <2>1, <2>2, <2>3 DEF Log!Alert
  <2> QED
    BY <2>3, <2>4, <2>5 DEF Log!Next
<1>2. CASE Tick
  BY <1>2 DEF Tick, Log!Tick, Log!Next
<1>3. ASSUME UNCHANGED <<now, log>> PROVE [Log!Next]_(Log!vars)
  BY <1>3 DEF Log!vars
<1> QED
  BY <1>1, <1>2, <1>3
     DEF Next, vars, Deliver, RolledBack, RateLimited, SendFails, Crash, Restart,
         SkippedInCooldown, SkippedByCap, StartSend

\* The policy implements the rule about the table (AlertPolicy.decide and
\* load): it decides after a restart as if the process had never stopped.
THEOREM Refinement == Spec => ImplementsLog
<1>1. Init => Log!Init
  BY DEF Init, Log!Init
<1>2. IInv /\ [Next]_vars => [Log!Next]_(Log!vars)
  BY StepRefines
<1> QED
  BY <1>1, <1>2, Invariance, PTL DEF Spec, ImplementsLog, Log!Spec
=============================================================================
