------------------------- MODULE Connection_proofs -------------------------
(* Proofs about the connection.  JsonRpc, for any number of requests and   *)
(* calls to the client: its variables keep their types, an answer of the   *)
(* client finds the handler that awaits it, and JsonRpc implements         *)
(* RequestLifecycle.  Framing, whatever the messages, and however the      *)
(* transport cuts them: data_received gives their bodies back, whole, in   *)
(* order and without delay.                                                *)
EXTENDS JsonRpc, Framing, FiniteSetTheorems, SequenceTheorems, TLAPS

-----------------------------------------------------------------------------
(* Queues: what is in them, and what is in them once.                      *)

Has(q, e) == \E i \in 1 .. Len(q) : q[i] = e
Once(q, e) == \A i, j \in 1 .. Len(q) : q[i] = e /\ q[j] = e => i = j

LEMMA AppendHas ==
  ASSUME NEW S, NEW q \in Seq(S), NEW e \in S, NEW x
  PROVE  /\ Append(q, e) \in Seq(S)
         /\ Has(Append(q, e), x) <=> Has(q, x) \/ x = e
         /\ Once(q, x) /\ ~(x = e /\ Has(q, x)) => Once(Append(q, e), x)
<1>0. Len(q) \in Nat
  OBVIOUS
<1>1. /\ Append(q, e) \in Seq(S)
      /\ Len(Append(q, e)) = Len(q) + 1
      /\ \A i \in 1 .. Len(q) : Append(q, e)[i] = q[i]
      /\ Append(q, e)[Len(q) + 1] = e
  BY AppendProperties
<1>2. \A i \in 1 .. Len(q) + 1 : i \in 1 .. Len(q) \/ i = Len(q) + 1
  BY <1>0
<1>3. Has(Append(q, e), x) => Has(q, x) \/ x = e
  BY <1>1, <1>2 DEF Has
<1>4. Has(q, x) \/ x = e => Has(Append(q, e), x)
  BY <1>0, <1>1 DEF Has
<1>5. ASSUME Once(q, x), ~(x = e /\ Has(q, x)) PROVE Once(Append(q, e), x)
  BY <1>0, <1>1, <1>2, <1>5 DEF Has, Once
<1>. QED BY <1>1, <1>3, <1>4, <1>5

LEMMA TailHas ==
  ASSUME NEW S, NEW q \in Seq(S), q # <<>>, NEW x
  PROVE  /\ Tail(q) \in Seq(S) /\ Head(q) \in S
         /\ Has(q, Head(q))
         /\ Has(Tail(q), x) => Has(q, x)
         /\ Has(q, x) => Has(Tail(q), x) \/ x = Head(q)
         /\ Once(q, x) => Once(Tail(q), x)
         /\ Once(q, x) /\ x = Head(q) => ~Has(Tail(q), x)
<1>0. Len(q) \in Nat /\ Len(q) >= 1 /\ Head(q) = q[1]
  OBVIOUS
<1>1. /\ Head(q) \in S
      /\ Tail(q) \in Seq(S)
      /\ Len(Tail(q)) = Len(q) - 1
      /\ \A i \in 1 .. Len(Tail(q)) : Tail(q)[i] = q[i + 1]
  BY HeadTailProperties
<1>2. \A i \in 1 .. Len(q) - 1 : i + 1 \in 1 .. Len(q) /\ i + 1 # 1
  BY <1>0
<1>3. \A i \in 1 .. Len(q) : i = 1 \/ (i - 1 \in 1 .. Len(q) - 1 /\ (i - 1) + 1 = i)
  BY <1>0
<1>4. Has(q, Head(q))
  BY <1>0 DEF Has
<1>5. Has(Tail(q), x) => Has(q, x)
  BY <1>0, <1>1, <1>2 DEF Has
<1>6. Has(q, x) => Has(Tail(q), x) \/ x = Head(q)
  BY <1>0, <1>1, <1>3 DEF Has
<1>7. ASSUME Once(q, x) PROVE Once(Tail(q), x)
  <2>. SUFFICES ASSUME NEW i \in 1 .. Len(Tail(q)), NEW j \in 1 .. Len(Tail(q)),
                       Tail(q)[i] = x, Tail(q)[j] = x
                PROVE  i = j
    BY DEF Once
  <2>1. i + 1 \in 1 .. Len(q) /\ j + 1 \in 1 .. Len(q) /\ q[i + 1] = x /\ q[j + 1] = x
    BY <1>1, <1>2
  <2>2. i + 1 = j + 1
    BY <2>1, <1>7 DEF Once
  <2>. QED BY <2>2
<1>8. ASSUME Once(q, x), x = Head(q), Has(Tail(q), x) PROVE FALSE
  <2>1. PICK i \in 1 .. Len(Tail(q)) : Tail(q)[i] = x
    BY <1>8 DEF Has
  <2>2. i + 1 \in 1 .. Len(q) /\ i + 1 # 1 /\ q[i + 1] = x /\ 1 \in 1 .. Len(q) /\ q[1] = x
    BY <1>0, <1>1, <1>2, <1>8, <2>1
  <2>. QED BY <2>2, <1>8 DEF Once
<1>. QED BY <1>1, <1>4, <1>5, <1>6, <1>7, <1>8

LEMMA ConcatHas ==
  ASSUME NEW S, NEW q \in Seq(S), NEW t \in Seq(S), NEW x
  PROVE  /\ q \o t \in Seq(S)
         /\ Has(q \o t, x) => Has(q, x) \/ Has(t, x)
         /\ Has(q, x) \/ Has(t, x) => Has(q \o t, x)
         /\ Once(q, x) /\ Once(t, x) /\ ~(Has(q, x) /\ Has(t, x)) => Once(q \o t, x)
<1>0. Len(q) \in Nat /\ Len(t) \in Nat
  OBVIOUS
<1>1. /\ q \o t \in Seq(S)
      /\ Len(q \o t) = Len(q) + Len(t)
      /\ \A i \in 1 .. Len(q) + Len(t) :
           (q \o t)[i] = IF i <= Len(q) THEN q[i] ELSE t[i - Len(q)]
  BY ConcatProperties
<1>2. \A i \in 1 .. Len(q) + Len(t) :
        \/ i \in 1 .. Len(q) /\ (q \o t)[i] = q[i]
        \/ i > Len(q) /\ i - Len(q) \in 1 .. Len(t) /\ (q \o t)[i] = t[i - Len(q)]
  BY <1>0, <1>1
<1>3. Has(q \o t, x) => Has(q, x) \/ Has(t, x)
  BY <1>1, <1>2 DEF Has
<1>4. Has(q, x) => Has(q \o t, x)
  <2>. SUFFICES ASSUME NEW i \in 1 .. Len(q), q[i] = x PROVE Has(q \o t, x)
    BY DEF Has
  <2>1. i \in 1 .. Len(q) + Len(t) /\ (q \o t)[i] = x
    BY <1>0, <1>1
  <2>. QED BY <2>1, <1>1 DEF Has
<1>5. Has(t, x) => Has(q \o t, x)
  <2>. SUFFICES ASSUME NEW i \in 1 .. Len(t), t[i] = x PROVE Has(q \o t, x)
    BY DEF Has
  <2>1. /\ Len(q) + i \in 1 .. Len(q) + Len(t) /\ ~(Len(q) + i <= Len(q))
        /\ (Len(q) + i) - Len(q) = i
    BY <1>0
  <2>2. (q \o t)[Len(q) + i] = x
    BY <2>1, <1>1
  <2>. QED BY <2>1, <2>2, <1>1 DEF Has
<1>6. ASSUME Once(q, x), Once(t, x), ~(Has(q, x) /\ Has(t, x)) PROVE Once(q \o t, x)
  <2>. SUFFICES ASSUME NEW i \in 1 .. Len(q) + Len(t), NEW j \in 1 .. Len(q) + Len(t),
                       (q \o t)[i] = x, (q \o t)[j] = x
                PROVE  i = j
    BY <1>1 DEF Once
  <2>1. CASE i \in 1 .. Len(q) /\ j \in 1 .. Len(q)
    BY <2>1, <1>1, <1>6 DEF Once
  <2>2. CASE i > Len(q) /\ j > Len(q)
    <3>1. i - Len(q) \in 1 .. Len(t) /\ j - Len(q) \in 1 .. Len(t)
          /\ t[i - Len(q)] = x /\ t[j - Len(q)] = x
      BY <2>2, <1>0, <1>2
    <3>2. i - Len(q) = j - Len(q)
      BY <3>1, <1>6 DEF Once
    <3>. QED BY <3>2, <1>0
  <2>3. CASE (i \in 1 .. Len(q) /\ j > Len(q)) \/ (j \in 1 .. Len(q) /\ i > Len(q))
    BY <2>3, <1>0, <1>2, <1>6 DEF Has
  <2>. QED BY <2>1, <2>2, <2>3, <1>0
<1>. QED BY <1>1, <1>3, <1>4, <1>5, <1>6

(* The entries of t are those of q and of N, the new ones once.            *)
Grows(q, t, N) ==
  /\ \A x : Has(t, x) => Has(q, x) \/ x \in N
  /\ \A x : Once(q, x) /\ (x \in N => ~Has(q, x)) => Once(t, x)

(* Wherever b is in a queue, a is before it.                               *)
Before(q, a, b) ==
  \A j \in 1 .. Len(q) : q[j] = b => \E i \in 1 .. Len(q) : i < j /\ q[i] = a

LEMMA BeforeTail ==
  ASSUME NEW S, NEW q \in Seq(S), q # <<>>, NEW a, NEW b, Before(q, a, b), Head(q) # a
  PROVE  Before(Tail(q), a, b)
<1>0. Len(q) \in Nat /\ Len(q) >= 1 /\ Head(q) = q[1]
  OBVIOUS
<1>1. /\ Len(Tail(q)) = Len(q) - 1
      /\ \A i \in 1 .. Len(Tail(q)) : Tail(q)[i] = q[i + 1]
  BY HeadTailProperties
<1>. SUFFICES ASSUME NEW j \in 1 .. Len(q) - 1, Tail(q)[j] = b
              PROVE  \E i \in 1 .. Len(q) - 1 : i < j /\ Tail(q)[i] = a
  BY <1>1 DEF Before
<1>2. j + 1 \in 1 .. Len(q) /\ q[j + 1] = b
  BY <1>0, <1>1
<1>3. PICK i \in 1 .. Len(q) : i < j + 1 /\ q[i] = a
  BY <1>2 DEF Before
<1>4. i # 1 /\ i - 1 \in 1 .. Len(q) - 1 /\ (i - 1) + 1 = i /\ i - 1 < j
  BY <1>0, <1>3
<1>. QED BY <1>1, <1>3, <1>4

LEMMA BeforeConcat ==
  ASSUME NEW S, NEW q \in Seq(S), NEW t \in Seq(S), NEW a, NEW b,
         Before(q, a, b), Has(t, b) => Has(q, a)
  PROVE  Before(q \o t, a, b)
<1>0. Len(q) \in Nat /\ Len(t) \in Nat
  OBVIOUS
<1>1. /\ Len(q \o t) = Len(q) + Len(t)
      /\ \A i \in 1 .. Len(q) + Len(t) :
           (q \o t)[i] = IF i <= Len(q) THEN q[i] ELSE t[i - Len(q)]
  BY ConcatProperties
<1>. SUFFICES ASSUME NEW j \in 1 .. Len(q) + Len(t), (q \o t)[j] = b
              PROVE  \E i \in 1 .. Len(q) + Len(t) : i < j /\ (q \o t)[i] = a
  BY <1>1 DEF Before
<1>2. CASE j <= Len(q)
  <2>1. PICK i \in 1 .. Len(q) : i < j /\ q[i] = a
    BY <1>0, <1>1, <1>2 DEF Before
  <2>2. i \in 1 .. Len(q) + Len(t) /\ (q \o t)[i] = a
    BY <1>0, <1>1, <2>1
  <2>. QED BY <2>1, <2>2
<1>3. CASE ~(j <= Len(q))
  <2>1. j - Len(q) \in 1 .. Len(t) /\ t[j - Len(q)] = b
    BY <1>0, <1>1, <1>3
  <2>2. PICK i \in 1 .. Len(q) : q[i] = a
    BY <2>1 DEF Has
  <2>3. i \in 1 .. Len(q) + Len(t) /\ (q \o t)[i] = a /\ i < j
    BY <1>0, <1>1, <1>3, <2>2
  <2>. QED BY <2>3
<1>. QED BY <1>2, <1>3

-----------------------------------------------------------------------------
(* The queue of the loop                                                   *)

LEMMA EntryTypes ==
  /\ \A r \in Requests : <<"handler", r>> \in Entries /\ <<"reply", r>> \in Entries
  /\ <<"data", 0>> \in Entries /\ <<"stop", 0>> \in Entries /\ <<"cancel_all", 0>> \in Entries
  /\ \A m \in Messages : <<"message", m>> \in Entries
  /\ \A r \in Requests : <<"request", r>> \in Messages /\ <<"cancel", r>> \in Messages
  /\ \A c \in Calls : <<"response", c>> \in Messages /\ <<"error", c>> \in Messages
  /\ <<"exit", 0>> \in Messages
BY DEF Entries, Messages

(* What the loop runs is taken out of the queue.                           *)
LEMMA RunsTail ==
  ASSUME ready \in Seq(Entries), NEW e, Runs(e)
  PROVE  /\ loop \in {"running", "stopping"}
         /\ ready # <<>> /\ Head(ready) = e
         /\ Tail(ready) \in Seq(Entries)
         /\ Has(ready, e)
         /\ Grows(ready, Tail(ready), {})
         /\ Once(ready, e) => ~Has(Tail(ready), e)
<1>1. loop \in {"running", "stopping"} /\ ready # <<>> /\ Head(ready) = e
  BY DEF Runs
<1>2. \A x : /\ Has(Tail(ready), x) => Has(ready, x)
             /\ Once(ready, x) => Once(Tail(ready), x)
  BY <1>1, TailHas
<1>3. Grows(ready, Tail(ready), {})
  BY <1>2 DEF Grows
<1>. QED BY <1>1, <1>3, TailHas

(* ... and what it makes ready is put behind the rest.                     *)
LEMMA AppendGrows ==
  ASSUME NEW S, NEW q \in Seq(S), NEW e \in S
  PROVE  Append(q, e) \in Seq(S) /\ Grows(q, Append(q, e), {e})
<1>1. \A x : /\ Has(Append(q, e), x) <=> Has(q, x) \/ x = e
             /\ Once(q, x) /\ ~(x = e /\ Has(q, x)) => Once(Append(q, e), x)
  BY AppendHas
<1>. QED BY <1>1, AppendHas DEF Grows

LEMMA GrowsTwice ==
  ASSUME NEW q, NEW s, NEW t, NEW N, Grows(q, s, {}), Grows(s, t, N)
  PROVE  Grows(q, t, N)
BY DEF Grows

Asleep(S) == {r \in S : handler[r] = "suspended"}

LEMMA WakeGrows ==
  ASSUME NEW S \in SUBSET Requests, NEW q \in Seq(Entries), Wake(S, q)
  PROVE  /\ ready' \in Seq(Entries)
         /\ Grows(q, ready', {<<"handler", r>> : r \in Asleep(S)})
         /\ \A x : Has(q, x) => Has(ready', x)
         /\ Before(q, <<"reply", Shutdown>>, <<"stop", 0>>) =>
              Before(ready', <<"reply", Shutdown>>, <<"stop", 0>>)
         /\ handler' = [r \in Requests |-> IF r \in Asleep(S) THEN "resumed" ELSE handler[r]]
         /\ awaits' = [r \in Requests |-> IF r \in Asleep(S) THEN 0 ELSE awaits[r]]
<1>. DEFINE W == Asleep(S)
            n == Cardinality(W)
<1>1. IsFiniteSet(W) /\ n \in Nat
  BY JsonRpcAssumption, FS_Subset, FS_CardinalityType DEF Asleep
<1>2. PICK o \in Orders(W) : ready' = q \o [i \in DOMAIN o |-> <<"handler", o[i]>>]
  BY DEF Wake, Asleep
<1>. DEFINE t == [i \in 1 .. n |-> <<"handler", o[i]>>]
<1>3. o \in [1 .. n -> W] /\ \A s \in W : \E i \in 1 .. n : o[i] = s
  BY <1>2 DEF Orders
<1>4. ready' = q \o t
  BY <1>2, <1>3
<1>5. o \in Injection(1 .. n, W)
  <2>1. o \in Surjection(1 .. n, W)
    BY <1>3 DEF Surjection
  <2>2. IsFiniteSet(1 .. n) /\ Cardinality(1 .. n) = n
    BY <1>1, FS_Interval
  <2>. QED BY <2>1, <2>2, FS_SurjSameCardinalityImpliesInj
<1>6. \A i, j \in 1 .. n : o[i] = o[j] => i = j
  BY <1>5 DEF Injection, IsInjective
<1>7. /\ t \in Seq(Entries)
      /\ Len(t) = n
      /\ \A i \in 1 .. n : t[i] = <<"handler", o[i]>>
  <2>1. W \subseteq Requests
    BY DEF Asleep
  <2>. HIDE DEF W, n
  <2>2. \A i \in 1 .. n : <<"handler", o[i]>> \in Entries
    BY <1>3, <2>1, EntryTypes
  <2>3. t \in Seq(Entries)
    BY <1>1, <2>2, IsASeq
  <2>. QED BY <1>1, <2>3
<1>8. \A x : Once(t, x) /\ (Has(t, x) => x \in {<<"handler", r>> : r \in W})
  <2>. HIDE DEF W, n, t
  <2>1. ASSUME NEW i \in 1 .. n, NEW j \in 1 .. n, t[i] = t[j] PROVE i = j
    <3>1. <<"handler", o[i]>> = <<"handler", o[j]>>
      BY <1>7, <2>1
    <3>2. o[i] = o[j]
      BY <3>1
    <3>. QED BY <1>6, <3>2
  <2>2. \A x : Once(t, x)
    BY <1>7, <2>1 DEF Once
  <2>3. \A i \in 1 .. n : t[i] \in {<<"handler", r>> : r \in W}
    BY <1>3, <1>7
  <2>4. \A x : Has(t, x) => x \in {<<"handler", r>> : r \in W}
    BY <1>7, <2>3 DEF Has
  <2>. QED BY <2>2, <2>4
<1>9. \A x : /\ Has(q \o t, x) => Has(q, x) \/ Has(t, x)
             /\ Has(q, x) => Has(q \o t, x)
             /\ Once(q, x) /\ Once(t, x) /\ ~(Has(q, x) /\ Has(t, x)) => Once(q \o t, x)
  BY <1>7, ConcatHas
<1>10. Grows(q, ready', {<<"handler", r>> : r \in W})
  BY <1>4, <1>8, <1>9 DEF Grows
<1>11. ~Has(t, <<"stop", 0>>)
  BY <1>8
<1>12. /\ handler' = [r \in Requests |-> IF r \in Asleep(S) THEN "resumed" ELSE handler[r]]
       /\ awaits' = [r \in Requests |-> IF r \in Asleep(S) THEN 0 ELSE awaits[r]]
  BY DEF Wake, Asleep
<1>. QED BY <1>4, <1>7, <1>9, <1>10, <1>11, <1>12, ConcatHas, BeforeConcat

-----------------------------------------------------------------------------
(* The invariant                                                           *)

ReqEntry(r) == <<"message", <<"request", r>> >>
CancelEntry(r) == <<"message", <<"cancel", r>> >>
ExitEntry == <<"message", <<"exit", 0>> >>

(* A handler is ready once, and only if it does not wait.                  *)
HandlerEntries ==
  \A r \in Requests :
    /\ Once(ready, <<"handler", r>>)
    /\ Has(ready, <<"handler", r>>) => handler[r] \in {"created", "resumed"}

(* The message of a request is under way once, and before its handler.     *)
RequestEntries ==
  \A r \in Requests :
    /\ Once(ready, ReqEntry(r)) /\ Once(inbox, <<"request", r>>)
    /\ ~(Has(ready, ReqEntry(r)) /\ Has(inbox, <<"request", r>>))
    /\ Has(ready, ReqEntry(r)) => handler[r] = "none" /\ r \in sent
    /\ Has(inbox, <<"request", r>>) => handler[r] = "none" /\ r \in sent
    /\ r \notin sent => handler[r] = "none"

(* Who was woken to read has something to read.                            *)
DataEntry ==
  /\ Once(ready, <<"data", 0>>)
  /\ Has(ready, <<"data", 0>>) => reader = "woken" /\ inbox # <<>>

QInv == TypeOK /\ HandlerEntries /\ RequestEntries /\ DataEntry

LEMMA QueueInit == Init => QInv
<1>. SUFFICES ASSUME Init PROVE QInv
  OBVIOUS
<1>1. TypeOK
  <2>1. 0 \in 0 .. MaxCalls
    BY JsonRpcAssumption
  <2>2. ready \in Seq(Entries) /\ inbox \in Seq(Messages)
    BY DEF Init
  <2>3. answers \in [Requests -> Seq({"result", "error"})]
    BY DEF Init
  <2>. QED BY <2>1, <2>2, <2>3 DEF Init, TypeOK
<1>2. \A x : ~Has(ready, x) /\ ~Has(inbox, x) /\ Once(ready, x) /\ Once(inbox, x)
  BY DEF Init, Has, Once
<1>. QED BY <1>1, <1>2 DEF QInv, HandlerEntries, RequestEntries, DataEntry, Init

(* The messages of the client.                                             *)
LEMMA ClientQueue ==
  ASSUME QInv, NEW m \in Messages, Sends(m),
         UNCHANGED <<tables, server, ready, tasks, answers>>,
         sent \subseteq sent',
         \/ m = <<"exit", 0>> \/ \E x : m = <<"cancel", x>>
         \/ \E c : m \in {<<"response", c>>, <<"error", c>>}
         \/ \E r \in Requests : m = <<"request", r>> /\ r \notin sent /\ r \in sent'
  PROVE  /\ inbox' \in Seq(Messages)
         /\ HandlerEntries' /\ RequestEntries' /\ DataEntry'
<1>. USE DEF QInv, TypeOK, tables, server, tasks
<1>1. inbox' = Append(inbox, m)
  BY DEF Sends
<1>2. inbox' \in Seq(Messages) /\ inbox' # <<>>
  BY <1>1, AppendProperties
<1>3. \A x : /\ Has(inbox', x) <=> Has(inbox, x) \/ x = m
             /\ Once(inbox, x) /\ ~(x = m /\ Has(inbox, x)) => Once(inbox', x)
  BY <1>1, AppendHas
<1>4. HandlerEntries'
  BY DEF HandlerEntries
<1>5. DataEntry'
  BY <1>2 DEF DataEntry
<1>6. ASSUME NEW r \in Requests
      PROVE  /\ Once(inbox', <<"request", r>>)
             /\ ~(Has(ready, ReqEntry(r)) /\ Has(inbox', <<"request", r>>))
             /\ Has(inbox', <<"request", r>>) => handler[r] = "none" /\ r \in sent'
  <2>1. CASE m = <<"request", r>>
    <3>1. r \notin sent /\ r \in sent'
      BY <2>1
    <3>. QED BY <2>1, <3>1, <1>3 DEF RequestEntries
  <2>2. CASE m # <<"request", r>>
    BY <2>2, <1>3 DEF RequestEntries
  <2>. QED BY <2>1, <2>2
<1>7. RequestEntries'
  BY <1>6 DEF RequestEntries, ReqEntry
<1>. QED BY <1>2, <1>4, <1>5, <1>7

LEMMA ClientStep == QInv /\ Client => QInv'
<1>. SUFFICES ASSUME QInv, Client PROVE QInv'
  OBVIOUS
<1>. USE DEF QInv
<1>1. ASSUME NEW r \in Requests, client_request(r) PROVE QInv'
  <2>1. inbox' \in Seq(Messages) /\ HandlerEntries' /\ RequestEntries' /\ DataEntry'
    BY <1>1, ClientQueue, EntryTypes DEF client_request
  <2>2. TypeOK'
    BY <1>1, <2>1 DEF client_request, TypeOK, tables, server, tasks
  <2>. QED BY <2>1, <2>2
<1>2. ASSUME NEW r \in Requests, client_cancel(r) PROVE QInv'
  <2>1. inbox' \in Seq(Messages) /\ HandlerEntries' /\ RequestEntries' /\ DataEntry'
    BY <1>2, ClientQueue, EntryTypes DEF client_cancel
  <2>2. TypeOK'
    BY <1>2, <2>1 DEF client_cancel, TypeOK, tables, server, tasks
  <2>. QED BY <2>1, <2>2
<1>3. ASSUME NEW c \in Calls, NEW kind \in {"response", "error"}, client_reply(c, kind)
      PROVE  QInv'
  <2>1. inbox' \in Seq(Messages) /\ HandlerEntries' /\ RequestEntries' /\ DataEntry'
    BY <1>3, ClientQueue, EntryTypes DEF client_reply
  <2>2. TypeOK'
    BY <1>3, <2>1 DEF client_reply, TypeOK, tables, server, tasks
  <2>. QED BY <2>1, <2>2
<1>4. CASE client_exit
  <2>1. inbox' \in Seq(Messages) /\ HandlerEntries' /\ RequestEntries' /\ DataEntry'
    BY <1>4, ClientQueue, EntryTypes DEF client_exit
  <2>2. TypeOK'
    BY <1>4, <2>1 DEF client_exit, TypeOK, tables, server, tasks
  <2>. QED BY <2>1, <2>2
<1>. QED BY <1>1, <1>2, <1>3, <1>4 DEF Client

(* Reading moves a message from the inbox to the queue.                    *)
LEMMA ReadStep == QInv /\ (read \/ data_received) => QInv'
<1>. SUFFICES ASSUME QInv, read \/ data_received PROVE QInv'
  OBVIOUS
<1>. USE DEF QInv
<1>1. CASE read
  <2>. USE <1>1 DEF read, tables, tasks, client
  <2>1. ready' \in Seq(Entries) /\ Grows(ready, ready', {<<"data", 0>>})
    BY AppendGrows, EntryTypes DEF TypeOK
  <2>2. TypeOK'
    BY <2>1 DEF TypeOK
  <2>3. \A r \in Requests :
          /\ Has(ready', <<"handler", r>>) => Has(ready, <<"handler", r>>)
          /\ Has(ready', ReqEntry(r)) => Has(ready, ReqEntry(r))
          /\ Once(ready, <<"handler", r>>) => Once(ready', <<"handler", r>>)
          /\ Once(ready, ReqEntry(r)) => Once(ready', ReqEntry(r))
    BY <2>1 DEF Grows, ReqEntry
  <2>4. HandlerEntries'
    BY <2>3 DEF HandlerEntries
  <2>5. RequestEntries'
    BY <2>3 DEF RequestEntries
  <2>6. DataEntry'
    BY <2>1 DEF DataEntry, Grows
  <2>. QED BY <2>2, <2>4, <2>5, <2>6
<1>2. CASE data_received
  <2>. USE <1>2 DEF data_received, tables, tasks, client
  <2>1. /\ ready # <<>> /\ Has(ready, <<"data", 0>>) /\ Grows(ready, Tail(ready), {})
        /\ Tail(ready) \in Seq(Entries) /\ ~Has(Tail(ready), <<"data", 0>>)
    BY RunsTail DEF TypeOK, DataEntry
  <2>2. inbox # <<>> /\ inbox \in Seq(Messages)
    BY <2>1 DEF DataEntry, TypeOK
  <2>3. /\ Head(inbox) \in Messages /\ Tail(inbox) \in Seq(Messages)
        /\ Has(inbox, Head(inbox))
        /\ \A x : /\ Has(Tail(inbox), x) => Has(inbox, x)
                  /\ Once(inbox, x) => Once(Tail(inbox), x)
                  /\ Once(inbox, x) /\ x = Head(inbox) => ~Has(Tail(inbox), x)
    BY <2>2, TailHas
  <2>. DEFINE e == <<"message", Head(inbox)>>
              q == Append(Tail(ready), e)
  <2>4. ready' = q \/ ready' = Append(q, <<"stop", 0>>)
    <3>1. e \in Entries
      BY <2>3, EntryTypes
    <3>2. Tail(ready) \o <<e>> = q /\ q \in Seq(Entries)
      BY <2>1, <3>1, AppendIsConcat, AppendProperties
    <3>3. q \o <<>> = q /\ q \o << <<"stop", 0>> >> = Append(q, <<"stop", 0>>)
      BY <3>2, ConcatEmptySeq, AppendIsConcat, EntryTypes
    <3>. QED BY <3>2, <3>3
  <2>5. /\ ready' \in Seq(Entries)
        /\ Grows(Tail(ready), ready', {e, <<"stop", 0>>})
    <3>1. q \in Seq(Entries) /\ Grows(Tail(ready), q, {e})
      BY <2>1, <2>3, AppendGrows, EntryTypes
    <3>2. Append(q, <<"stop", 0>>) \in Seq(Entries) /\ Grows(q, Append(q, <<"stop", 0>>), {<<"stop", 0>>})
      BY <3>1, AppendGrows, EntryTypes
    <3>3. Grows(Tail(ready), Append(q, <<"stop", 0>>), {e, <<"stop", 0>>})
      <4>. HIDE DEF q
      <4>. QED BY <3>1, <3>2 DEF Grows
    <3>4. Grows(Tail(ready), q, {e, <<"stop", 0>>})
      <4>. HIDE DEF q
      <4>. QED BY <3>1 DEF Grows
    <3>. QED BY <2>4, <3>1, <3>2, <3>3, <3>4
  <2>. HIDE DEF q
  <2>6. TypeOK'
    BY <2>3, <2>5 DEF TypeOK
  <2>7. HandlerEntries'
    <3>1. \A r \in Requests : <<"handler", r>> \notin {e, <<"stop", 0>>}
      OBVIOUS
    <3>. QED BY <2>1, <2>5, <3>1 DEF HandlerEntries, Grows
  <2>8. DataEntry'
    <3>1. \A x \in {e, <<"stop", 0>>} : x # <<"data", 0>>
      OBVIOUS
    <3>. QED BY <2>1, <2>5, <3>1 DEF DataEntry, Grows
  <2>9. ASSUME NEW r \in Requests
        PROVE  /\ Once(ready', ReqEntry(r))
               /\ Has(ready', ReqEntry(r)) => ~Has(inbox', <<"request", r>>)
               /\ Has(ready', ReqEntry(r)) => Has(ready, ReqEntry(r)) \/ Has(inbox, <<"request", r>>)
    <3>1. CASE Head(inbox) = <<"request", r>>
      <4>1. ~Has(ready, ReqEntry(r)) /\ ~Has(inbox', <<"request", r>>)
        BY <2>3, <3>1 DEF RequestEntries
      <4>. QED BY <2>1, <2>3, <2>5, <3>1, <4>1 DEF RequestEntries, Grows
    <3>2. CASE Head(inbox) # <<"request", r>>
      <4>1. ReqEntry(r) \notin {e, <<"stop", 0>>}
        BY <3>2 DEF ReqEntry
      <4>. QED BY <2>1, <2>3, <2>5, <4>1 DEF RequestEntries, Grows
    <3>. QED BY <3>1, <3>2
  <2>10. RequestEntries'
    BY <2>3, <2>9 DEF RequestEntries
  <2>. QED BY <2>6, <2>7, <2>8, <2>10
<1>. QED BY <1>1, <1>2

-----------------------------------------------------------------------------
(* Tasks: what a step of a task leaves of the queue, with what it adds.    *)
LEMMA TaskQueue ==
  ASSUME QInv, NEW N, ready' \in Seq(Entries), Grows(ready, ready', N),
         UNCHANGED <<inbox, sent, reader>>,
         <<"data", 0>> \notin N,
         \A r \in Requests : ReqEntry(r) \notin N,
         \A r \in Requests : <<"handler", r>> \in N => ~Has(ready, <<"handler", r>>),
         \A r \in Requests :
           Has(ready', <<"handler", r>>) => handler'[r] \in {"created", "resumed"},
         \A r \in Requests :
           handler'[r] # handler[r] =>
             \/ handler[r] # "none"
             \/ ~Has(ready', ReqEntry(r)) /\ r \in sent /\ ~Has(inbox, <<"request", r>>)
  PROVE  HandlerEntries' /\ RequestEntries' /\ DataEntry'
<1>. USE DEF QInv
<1>1. HandlerEntries'
  BY DEF HandlerEntries, Grows
<1>2. DataEntry'
  BY DEF DataEntry, Grows
<1>3. \A r \in Requests :
        /\ Once(ready', ReqEntry(r))
        /\ Has(ready', ReqEntry(r)) => Has(ready, ReqEntry(r))
  BY DEF RequestEntries, Grows
<1>4. \A r \in Requests :
        /\ Has(ready', ReqEntry(r)) \/ Has(inbox, <<"request", r>>) => handler'[r] = handler[r]
        /\ r \notin sent => handler'[r] = handler[r]
  BY <1>3 DEF RequestEntries
<1>5. RequestEntries'
  BY <1>3, <1>4 DEF RequestEntries
<1>. QED BY <1>1, <1>2, <1>5

LEMMA Distinct ==
  \A r, s \in Requests :
    /\ <<"handler", r>> # ReqEntry(s) /\ <<"reply", r>> # ReqEntry(s)
    /\ <<"handler", r>> # <<"reply", s>>
    /\ <<"handler", r>> = <<"handler", s>> => r = s
    /\ <<"handler", r>> # <<"data", 0>> /\ <<"reply", r>> # <<"data", 0>>
    /\ <<"cancel_all", 0>> # ReqEntry(r) /\ <<"cancel_all", 0>> # <<"handler", r>>
    /\ <<"cancel_all", 0>> # <<"data", 0>>
BY DEF ReqEntry

(* A step that only takes its own entry out of the queue.                  *)
LEMMA TailStep ==
  ASSUME QInv, NEW e, Runs(e), ready' = Tail(ready),
         UNCHANGED <<inbox, sent, reader, handler>>
  PROVE  ready' \in Seq(Entries) /\ HandlerEntries' /\ RequestEntries' /\ DataEntry'
<1>1. ready' \in Seq(Entries) /\ Grows(ready, ready', {})
  BY RunsTail DEF QInv, TypeOK
<1>2. \A r \in Requests : Has(ready', <<"handler", r>>) => handler'[r] \in {"created", "resumed"}
  BY <1>1 DEF QInv, HandlerEntries, Grows
<1>. QED BY <1>1, <1>2, TaskQueue

(* The first handling of a request.                                        *)
LEMMA RequestStep ==
  ASSUME QInv, NEW r \in Requests, refuse_request(r) \/ handle_request(r)
  PROVE  QInv' /\ handler[r] = "none" /\ r \in sent
<1>. USE DEF QInv
<1>1. Runs(ReqEntry(r))
  BY DEF refuse_request, handle_request, Handles, ReqEntry
<1>2. /\ Has(ready, ReqEntry(r)) /\ ~Has(Tail(ready), ReqEntry(r))
      /\ Tail(ready) \in Seq(Entries) /\ Grows(ready, Tail(ready), {})
  BY <1>1, RunsTail DEF TypeOK, RequestEntries
<1>3. handler[r] = "none" /\ r \in sent /\ ~Has(inbox, <<"request", r>>)
  BY <1>2 DEF RequestEntries
<1>4. ~Has(ready, <<"handler", r>>)
  BY <1>3 DEF HandlerEntries
<1>5. CASE refuse_request(r)
  <2>. USE <1>5 DEF refuse_request, tables, server, client
  <2>1. TypeOK'
    BY <1>2 DEF TypeOK, Answer
  <2>2. \A s \in Requests : Has(ready', <<"handler", s>>) => handler'[s] \in {"created", "resumed"}
    BY <1>2, <1>4 DEF HandlerEntries, Grows, TypeOK
  <2>3. \A s \in Requests : handler'[s] # handler[s] =>
          ~Has(ready', ReqEntry(s)) /\ s \in sent /\ ~Has(inbox, <<"request", s>>)
    BY <1>2, <1>3 DEF TypeOK
  <2>4. ready' \in Seq(Entries) /\ Grows(ready, ready', {}) /\ UNCHANGED <<inbox, sent, reader>>
    BY <1>2
  <2>5. HandlerEntries' /\ RequestEntries' /\ DataEntry'
    BY <2>2, <2>3, <2>4, TaskQueue
  <2>. QED BY <1>3, <2>1, <2>5
<1>6. CASE handle_request(r)
  <2>. USE <1>6 DEF handle_request, server, client
  <2>1. ready' \in Seq(Entries) /\ Grows(ready, ready', {<<"handler", r>>})
    BY <1>2, AppendGrows, GrowsTwice, EntryTypes
  <2>2. TypeOK'
    BY <2>1 DEF TypeOK, Register, Live
  <2>3. \A s \in Requests : Has(ready', <<"handler", s>>) => handler'[s] \in {"created", "resumed"}
    <3>1. handler' = [handler EXCEPT ![r] = "created"]
      OBVIOUS
    <3>2. \A s \in Requests : s # r => <<"handler", s>> # <<"handler", r>>
      BY Distinct
    <3>3. \A s \in Requests : s # r /\ Has(ready', <<"handler", s>>) => Has(ready, <<"handler", s>>)
      BY <2>1, <3>2 DEF Grows
    <3>. QED BY <3>1, <3>3 DEF HandlerEntries, TypeOK
  <2>4. ~Has(ready', ReqEntry(r))
    BY <1>2, AppendHas, EntryTypes, Distinct
  <2>5. \A s \in Requests : handler'[s] # handler[s] =>
          ~Has(ready', ReqEntry(s)) /\ s \in sent /\ ~Has(inbox, <<"request", s>>)
    BY <1>3, <2>4 DEF TypeOK
  <2>6. /\ <<"data", 0>> \notin {<<"handler", r>>}
        /\ \A s \in Requests : ReqEntry(s) \notin {<<"handler", r>>}
        /\ \A s \in Requests : <<"handler", s>> \in {<<"handler", r>>} => ~Has(ready, <<"handler", s>>)
    BY <1>4, Distinct
  <2>7. UNCHANGED <<inbox, sent, reader>>
    OBVIOUS
  <2>8. HandlerEntries' /\ RequestEntries' /\ DataEntry'
    BY <2>1, <2>3, <2>5, <2>6, <2>7, TaskQueue
  <2>. QED BY <1>3, <2>2, <2>8
<1>. QED BY <1>5, <1>6

(* The steps that wake handlers up: cancellation, answers of the client    *)
(* and what else they wait for.                                            *)
LEMMA WakeStep ==
  ASSUME QInv, NEW S \in SUBSET Requests, NEW q \in Seq(Entries),
         Grows(ready, q, {}), Wake(S, q),
         UNCHANGED <<inbox, sent, reader>>
  PROVE  /\ ready' \in Seq(Entries)
         /\ handler' \in [Requests -> {"none", "closed"} \cup Live \cup Outcomes]
         /\ awaits' \in [Requests -> 0 .. MaxCalls]
         /\ HandlerEntries' /\ RequestEntries' /\ DataEntry'
<1>. USE DEF QInv
<1>. DEFINE N == {<<"handler", r>> : r \in Asleep(S)}
<1>1. /\ ready' \in Seq(Entries)
      /\ Grows(q, ready', N)
      /\ handler' = [r \in Requests |-> IF r \in Asleep(S) THEN "resumed" ELSE handler[r]]
      /\ awaits' = [r \in Requests |-> IF r \in Asleep(S) THEN 0 ELSE awaits[r]]
  BY WakeGrows
<1>2. Grows(ready, ready', N)
  BY <1>1, GrowsTwice
<1>3. /\ handler' \in [Requests -> {"none", "closed"} \cup Live \cup Outcomes]
      /\ awaits' \in [Requests -> 0 .. MaxCalls]
  BY <1>1, JsonRpcAssumption DEF TypeOK, Live
<1>4. \A r \in Requests : <<"handler", r>> \in N <=> r \in Asleep(S)
  BY Distinct DEF Asleep
<1>5. \A r \in Asleep(S) : handler[r] = "suspended" /\ r \in Requests
  BY DEF Asleep
<1>6. /\ <<"data", 0>> \notin N
      /\ \A r \in Requests : ReqEntry(r) \notin N
  BY <1>5, Distinct
<1>7. \A r \in Requests : <<"handler", r>> \in N => ~Has(ready, <<"handler", r>>)
  BY <1>4, <1>5 DEF HandlerEntries
<1>8. \A r \in Requests : Has(ready', <<"handler", r>>) => handler'[r] \in {"created", "resumed"}
  BY <1>1, <1>2, <1>4 DEF Grows, HandlerEntries
<1>9. \A r \in Requests : handler'[r] # handler[r] => handler[r] # "none"
  BY <1>1, <1>5
<1>. HIDE DEF N
<1>. QED BY <1>1, <1>2, <1>3, <1>6, <1>7, <1>8, <1>9, TaskQueue

(* A handler that runs: it waits or ends.                                  *)
LEMMA HandlerStep ==
  ASSUME QInv, NEW r \in Requests, Runs(<<"handler", r>>),
         NEW h \in {"suspended"} \cup Outcomes, handler' = [handler EXCEPT ![r] = h],
         \/ ready' = Tail(ready)
         \/ ready' = Append(Tail(ready), <<"reply", r>>)
         \/ ready' = Append(Tail(ready), <<"cancel_all", 0>>),
         UNCHANGED <<inbox, sent, reader>>
  PROVE  /\ ready' \in Seq(Entries)
         /\ Grows(ready, ready', {<<"reply", r>>, <<"cancel_all", 0>>})
         /\ handler' \in [Requests -> {"none", "closed"} \cup Live \cup Outcomes]
         /\ HandlerEntries' /\ RequestEntries' /\ DataEntry'
         /\ handler[r] \in {"created", "resumed"}
<1>. USE DEF QInv
<1>. DEFINE N == {<<"reply", r>>, <<"cancel_all", 0>>}
<1>1. /\ Has(ready, <<"handler", r>>) /\ ~Has(Tail(ready), <<"handler", r>>)
      /\ Tail(ready) \in Seq(Entries) /\ Grows(ready, Tail(ready), {})
  BY RunsTail DEF TypeOK, HandlerEntries
<1>2. handler[r] \in {"created", "resumed"}
  BY <1>1 DEF HandlerEntries
<1>3. /\ ready' \in Seq(Entries)
      /\ \/ Grows(Tail(ready), ready', {})
         \/ Grows(Tail(ready), ready', {<<"reply", r>>})
         \/ Grows(Tail(ready), ready', {<<"cancel_all", 0>>})
  <2>1. Grows(Tail(ready), Tail(ready), {})
    BY DEF Grows
  <2>. QED BY <1>1, <2>1, AppendGrows, EntryTypes
<1>4. Grows(Tail(ready), ready', N)
  BY <1>3 DEF Grows
<1>5. Grows(ready, ready', N)
  BY <1>1, <1>4, GrowsTwice
<1>6. /\ <<"data", 0>> \notin N
      /\ \A s \in Requests : ReqEntry(s) \notin N /\ <<"handler", s>> \notin N
  BY Distinct
<1>7. handler' \in [Requests -> {"none", "closed"} \cup Live \cup Outcomes]
  BY DEF TypeOK, Live
<1>8. \A s \in Requests : Has(ready', <<"handler", s>>) => handler'[s] \in {"created", "resumed"}
  <2>1. \A s \in Requests : Has(ready', <<"handler", s>>) => Has(Tail(ready), <<"handler", s>>)
    BY <1>4, <1>6 DEF Grows
  <2>2. \A s \in Requests : Has(ready', <<"handler", s>>) => s # r /\ Has(ready, <<"handler", s>>)
    BY <1>1, <2>1 DEF Grows
  <2>3. \A s \in Requests : s # r => handler'[s] = handler[s]
    BY DEF TypeOK
  <2>. QED BY <2>2, <2>3 DEF HandlerEntries
<1>9. \A s \in Requests : handler'[s] # handler[s] => handler[s] # "none"
  BY <1>2 DEF TypeOK
<1>. HIDE DEF N
<1>10. HandlerEntries' /\ RequestEntries' /\ DataEntry'
  BY <1>3, <1>5, <1>6, <1>8, <1>9, TaskQueue
<1>. QED BY <1>2, <1>3, <1>5, <1>7, <1>10 DEF N

(* The answer that handle_request writes when the handler is done.         *)
LEMMA ReplyStep ==
  ASSUME QInv, NEW r \in Requests, reply(r)
  PROVE  QInv'
<1>. USE DEF QInv, reply, server, client
<1>1. ready' \in Seq(Entries) /\ Grows(ready, ready', {})
  BY RunsTail DEF TypeOK
<1>2. TypeOK'
  <2>1. PICK x \in {"result", "error"} :
          answers' = answers \/ answers' = [answers EXCEPT ![r] = Append(@, x)]
    BY DEF Answer
  <2>2. answers[r] \in Seq({"result", "error"})
    BY DEF TypeOK
  <2>3. Append(answers[r], x) \in Seq({"result", "error"})
    BY <2>2, AppendProperties
  <2>4. answers' \in [Requests -> Seq({"result", "error"})]
    BY <2>1, <2>3 DEF TypeOK
  <2>. QED BY <1>1, <2>4 DEF TypeOK, Unregister
<1>3. handler[r] \in Outcomes /\ ~Has(ready, <<"handler", r>>)
  BY DEF HandlerEntries, Outcomes
<1>4. \A s \in Requests : Has(ready', <<"handler", s>>) => handler'[s] \in {"created", "resumed"}
  BY <1>1, <1>3 DEF HandlerEntries, Grows, TypeOK
<1>5. \A s \in Requests : handler'[s] # handler[s] => handler[s] # "none"
  BY <1>3 DEF TypeOK, Outcomes
<1>. QED BY <1>1, <1>2, <1>4, <1>5, TaskQueue

(* What waits for nothing of the client goes on waiting for nothing.       *)
CallersInv ==
  /\ \A r \in Requests : awaits[r] # 0 => awaits[r] <= sended_count
  /\ \A r, s \in Requests : awaits[r] # 0 /\ awaits[r] = awaits[s] => r = s
  /\ CallersAreKnown

(* The steps in which no handler is suspended and none goes on.            *)
LEMMA CallersStay ==
  ASSUME CallersInv, UNCHANGED <<awaits, future, sended, sended_count>>,
         \A r \in Requests : handler[r] = "suspended" => handler'[r] = "suspended"
  PROVE  CallersInv'
BY DEF CallersInv, CallersAreKnown

LEMMA LoopSteps ==
  ASSUME QInv, CallersInv,
         \/ stop \/ loop_ends \/ handle_exit
         \/ \E c \in Calls : handle_error(c)
         \/ \E r \in Requests : reply(r)
  PROVE  QInv' /\ CallersInv'
<1>. USE DEF tables, server, tasks, client
<1>1. CASE stop
  <2>1. ready' \in Seq(Entries) /\ HandlerEntries' /\ RequestEntries' /\ DataEntry'
    BY <1>1, TailStep DEF stop
  <2>2. QInv'
    BY <1>1, <2>1 DEF stop, QInv, TypeOK
  <2>. QED BY <1>1, <2>2, CallersStay DEF stop
<1>2. CASE loop_ends
  <2>1. QInv'
    BY <1>2 DEF loop_ends, QInv, TypeOK, HandlerEntries, RequestEntries, DataEntry
  <2>. QED BY <1>2, <2>1, CallersStay DEF loop_ends
<1>3. CASE handle_exit
  <2>1. ready' \in Seq(Entries) /\ HandlerEntries' /\ RequestEntries' /\ DataEntry'
    BY <1>3, TailStep DEF handle_exit, Handles
  <2>2. QInv'
    BY <1>3, <2>1 DEF handle_exit, QInv, TypeOK
  <2>. QED BY <1>3, <2>2, CallersStay DEF handle_exit
<1>4. ASSUME NEW c \in Calls, handle_error(c) PROVE QInv' /\ CallersInv'
  <2>1. ready' \in Seq(Entries) /\ HandlerEntries' /\ RequestEntries' /\ DataEntry'
    BY <1>4, TailStep DEF handle_error, Handles
  <2>2. QInv'
    BY <1>4, <2>1 DEF handle_error, QInv, TypeOK
  <2>. QED BY <1>4, <2>2, CallersStay DEF handle_error
<1>5. ASSUME NEW r \in Requests, reply(r) PROVE QInv' /\ CallersInv'
  <2>1. \A s \in Requests : handler[s] = "suspended" => handler'[s] = "suspended"
    BY <1>5 DEF reply, QInv, TypeOK
  <2>2. UNCHANGED <<awaits, future, sended, sended_count>>
    BY <1>5 DEF reply
  <2>. QED BY <1>5, <2>1, <2>2, ReplyStep, CallersStay
<1>. QED BY <1>1, <1>2, <1>3, <1>4, <1>5

(* Cancellation wakes a handler up and cancels what it waits for.          *)
LEMMA CancelStep ==
  ASSUME QInv, CallersInv, NEW e, Runs(e), NEW S \in SUBSET Requests,
         CancelTasks(S, Tail(ready)),
         cancelled' \subseteq Requests,
         UNCHANGED <<tables, server, answers, inbox, client>>
  PROVE  QInv' /\ CallersInv'
<1>. USE DEF tables, server, client
<1>1. Tail(ready) \in Seq(Entries) /\ Grows(ready, Tail(ready), {})
  BY RunsTail DEF QInv, TypeOK
<1>2. Wake(S, Tail(ready))
  BY DEF CancelTasks
<1>3. /\ ready' \in Seq(Entries)
      /\ handler' \in [Requests -> {"none", "closed"} \cup Live \cup Outcomes]
      /\ awaits' \in [Requests -> 0 .. MaxCalls]
      /\ HandlerEntries' /\ RequestEntries' /\ DataEntry'
  BY <1>1, <1>2, WakeStep
<1>4. future' = [c \in Calls |-> IF \E r \in S : handler[r] = "suspended" /\ awaits[r] = c
                                 THEN "cancelled" ELSE future[c]]
  BY DEF CancelTasks
<1>5. future' \in [Calls -> {"none", "pending", "cancelled", "done"}]
  BY <1>4 DEF QInv, TypeOK
<1>6. TypeOK'
  BY <1>3, <1>5 DEF QInv, TypeOK
<1>7. /\ handler' = [r \in Requests |-> IF r \in Asleep(S) THEN "resumed" ELSE handler[r]]
      /\ awaits' = [r \in Requests |-> IF r \in Asleep(S) THEN 0 ELSE awaits[r]]
  BY <1>1, <1>2, WakeGrows
<1>8. \A r \in Requests : awaits'[r] # 0 => r \notin Asleep(S) /\ awaits'[r] = awaits[r]
                                            /\ handler'[r] = handler[r]
  BY <1>7
<1>9. \A r \in Requests : awaits'[r] # 0 => future'[awaits[r]] = future[awaits[r]]
  <2>. SUFFICES ASSUME NEW r \in Requests, awaits'[r] # 0,
                       NEW s \in S, handler[s] = "suspended", awaits[s] = awaits[r]
                PROVE  FALSE
    BY <1>4, <1>8 DEF QInv, TypeOK, Calls, CallersInv, CallersAreKnown
  <2>1. s = r
    BY <1>8 DEF CallersInv
  <2>. QED BY <2>1, <1>8 DEF Asleep
<1>10. CallersInv'
  BY <1>8, <1>9 DEF CallersInv, CallersAreKnown
<1>. QED BY <1>3, <1>6, <1>10 DEF QInv

LEMMA CancelSteps ==
  ASSUME QInv, CallersInv,
         \/ \E r \in Requests : cancel_received_request(r)
         \/ cancel_all_received_request
  PROVE  QInv' /\ CallersInv'
<1>1. ASSUME NEW r \in Requests, cancel_received_request(r) PROVE QInv' /\ CallersInv'
  <2>1. cancelled' \subseteq Requests
    BY <1>1 DEF cancel_received_request, QInv, TypeOK
  <2>. QED BY <1>1, <2>1, CancelStep DEF cancel_received_request, Handles
<1>2. CASE cancel_all_received_request
  <2>1. cancelled' \subseteq Requests /\ received \in SUBSET Requests
    BY <1>2 DEF cancel_all_received_request, QInv, TypeOK
  <2>. QED BY <1>2, <2>1, CancelStep DEF cancel_all_received_request
<1>. QED BY <1>1, <1>2

(* A response wakes up whoever awaits it.                                  *)
LEMMA ResponseStep ==
  ASSUME QInv, CallersInv, NEW c \in Calls, handle_response(c)
  PROVE  QInv' /\ CallersInv'
<1>. USE DEF server, client
<1>. DEFINE S == {r \in Requests : awaits[r] = c}
<1>1. Tail(ready) \in Seq(Entries) /\ Grows(ready, Tail(ready), {})
  BY RunsTail DEF QInv, TypeOK, handle_response, Handles
<1>2. /\ Wake(S, Tail(ready))
      /\ future' = [future EXCEPT ![c] = IF @ = "pending" THEN "done" ELSE @]
      /\ sended' = sended \ {c}
      /\ UNCHANGED <<received, sended_count, server, cancelled, answers, inbox, client>>
  BY DEF handle_response, Resolve
<1>3. /\ ready' \in Seq(Entries)
      /\ handler' \in [Requests -> {"none", "closed"} \cup Live \cup Outcomes]
      /\ awaits' \in [Requests -> 0 .. MaxCalls]
      /\ HandlerEntries' /\ RequestEntries' /\ DataEntry'
  BY <1>1, <1>2, WakeStep
<1>4. future' \in [Calls -> {"none", "pending", "cancelled", "done"}]
  BY <1>2 DEF QInv, TypeOK
<1>5. TypeOK'
  BY <1>2, <1>3, <1>4 DEF QInv, TypeOK
<1>6. /\ handler' = [r \in Requests |-> IF r \in Asleep(S) THEN "resumed" ELSE handler[r]]
      /\ awaits' = [r \in Requests |-> IF r \in Asleep(S) THEN 0 ELSE awaits[r]]
  BY <1>1, <1>2, WakeGrows
<1>7. \A r \in Requests : awaits'[r] # 0 => /\ awaits'[r] = awaits[r] /\ awaits[r] # c
                                            /\ handler'[r] = handler[r]
  <2>1. c # 0
    BY DEF Calls
  <2>. QED BY <2>1, <1>6 DEF Asleep, CallersInv, CallersAreKnown
<1>8. CallersInv'
  BY <1>2, <1>7 DEF CallersInv, CallersAreKnown, QInv, TypeOK
<1>. QED BY <1>3, <1>5, <1>8 DEF QInv

(* What a handler waits for happens.                                       *)
LEMMA ResumeStep ==
  ASSUME QInv, CallersInv, NEW r \in Requests, resume(r)
  PROVE  QInv' /\ CallersInv'
<1>. USE DEF tables, server, client
<1>1. ready \in Seq(Entries) /\ Grows(ready, ready, {})
  BY DEF QInv, TypeOK, Grows
<1>2. Wake({r}, ready) /\ handler[r] = "suspended" /\ awaits[r] = 0
      /\ UNCHANGED <<tables, server, cancelled, future, answers, inbox, client>>
  BY DEF resume
<1>3. /\ ready' \in Seq(Entries)
      /\ handler' \in [Requests -> {"none", "closed"} \cup Live \cup Outcomes]
      /\ awaits' \in [Requests -> 0 .. MaxCalls]
      /\ HandlerEntries' /\ RequestEntries' /\ DataEntry'
  BY <1>1, <1>2, WakeStep
<1>4. TypeOK'
  BY <1>2, <1>3 DEF QInv, TypeOK
<1>5. /\ handler' = [s \in Requests |-> IF s \in Asleep({r}) THEN "resumed" ELSE handler[s]]
      /\ awaits' = [s \in Requests |-> IF s \in Asleep({r}) THEN 0 ELSE awaits[s]]
  BY <1>1, <1>2, WakeGrows
<1>6. \A s \in Requests : awaits'[s] # 0 => awaits'[s] = awaits[s] /\ handler'[s] = handler[s]
  BY <1>2, <1>5
<1>7. CallersInv'
  BY <1>2, <1>6 DEF CallersInv, CallersAreKnown
<1>. QED BY <1>3, <1>4, <1>7 DEF QInv

(* The steps of the handlers.                                              *)
LEMMA HandlerSteps ==
  ASSUME QInv, CallersInv, NEW r \in Requests, NEW outcome \in Outcomes,
         \/ suspend(r) \/ send_request(r) \/ finish(r, outcome)
         \/ r = Shutdown /\ (shutdown \/ finish_shutdown(outcome))
  PROVE  QInv' /\ CallersInv'
<1>. USE DEF tables, server, client
<1>1. ASSUME handler[r] \in {"created", "resumed"},
             UNCHANGED <<awaits, future, sended, sended_count>>,
             \E h : handler' = [handler EXCEPT ![r] = h]
      PROVE  CallersInv'
  <2>1. \A s \in Requests : handler[s] = "suspended" => handler'[s] = "suspended"
    BY <1>1 DEF QInv, TypeOK
  <2>. QED BY <1>1, <2>1, CallersStay
<1>2. CASE suspend(r)
  <2>. USE <1>2 DEF suspend
  <2>1. /\ ready' \in Seq(Entries)
        /\ handler' \in [Requests -> {"none", "closed"} \cup Live \cup Outcomes]
        /\ HandlerEntries' /\ RequestEntries' /\ DataEntry' /\ handler[r] \in {"created", "resumed"}
    BY HandlerStep DEF Steps
  <2>2. QInv'
    BY <2>1 DEF QInv, TypeOK
  <2>. QED BY <2>1, <2>2, <1>1
<1>3. CASE send_request(r)
  <2>. USE <1>3 DEF send_request
  <2>. DEFINE n == sended_count + 1
  <2>1. /\ ready' \in Seq(Entries)
        /\ handler' \in [Requests -> {"none", "closed"} \cup Live \cup Outcomes]
        /\ HandlerEntries' /\ RequestEntries' /\ DataEntry' /\ handler[r] \in {"created", "resumed"}
    BY HandlerStep DEF Steps
  <2>2. n \in Calls /\ n \in 0 .. MaxCalls /\ n # 0
    BY JsonRpcAssumption DEF QInv, TypeOK, Calls
  <2>3. /\ sended_count' = n /\ sended' = sended \cup {n}
        /\ future' = [future EXCEPT ![n] = "pending"]
        /\ awaits' = [awaits EXCEPT ![r] = n]
        /\ handler' = [handler EXCEPT ![r] = "suspended"]
    OBVIOUS
  <2>4. TypeOK'
    BY <2>1, <2>2, <2>3 DEF QInv, TypeOK
  <2>5. QInv'
    BY <2>1, <2>4 DEF QInv
  <2>6. \A s \in Requests : s # r => awaits'[s] = awaits[s] /\ handler'[s] = handler[s]
    BY <2>3 DEF QInv, TypeOK
  <2>7. awaits'[r] = n /\ handler'[r] = "suspended" /\ n \in sended' /\ future'[n] = "pending"
    BY <2>2, <2>3 DEF QInv, TypeOK
  <2>8. ASSUME NEW s \in Requests PROVE awaits[s] # n
    <3>1. sended_count \in Nat /\ awaits[s] \in Nat
      BY JsonRpcAssumption DEF QInv, TypeOK
    <3>2. awaits[s] = 0 \/ awaits[s] <= sended_count
      BY DEF CallersInv
    <3>. QED BY <3>1, <3>2
  <2>9. \A s \in Requests : s # r /\ awaits[s] # 0 => /\ awaits[s] <= sended_count'
                                                      /\ future'[awaits[s]] = future[awaits[s]]
    BY <2>2, <2>3, <2>8 DEF CallersInv, CallersAreKnown, QInv, TypeOK
  <2>10. awaits'[r] <= sended_count'
    BY <2>2, <2>3, <2>7
  <2>. HIDE DEF n
  <2>11. CallersInv'
    <3>1. \A s \in Requests : awaits'[s] # 0 => awaits'[s] <= sended_count'
      BY <2>6, <2>9, <2>10
    <3>2. \A s, t \in Requests : awaits'[s] # 0 /\ awaits'[s] = awaits'[t] => s = t
      BY <2>6, <2>7, <2>8 DEF CallersInv
    <3>3. CallersAreKnown'
      BY <2>3, <2>6, <2>7, <2>9 DEF CallersInv, CallersAreKnown
    <3>. QED BY <3>1, <3>2, <3>3 DEF CallersInv
  <2>. QED BY <2>5, <2>11
<1>4. CASE finish(r, outcome)
  <2>. USE <1>4 DEF finish, Ends
  <2>1. /\ ready' \in Seq(Entries)
        /\ handler' \in [Requests -> {"none", "closed"} \cup Live \cup Outcomes]
        /\ HandlerEntries' /\ RequestEntries' /\ DataEntry' /\ handler[r] \in {"created", "resumed"}
    BY HandlerStep
  <2>2. QInv'
    BY <2>1 DEF QInv, TypeOK
  <2>. QED BY <2>1, <2>2, <1>1
<1>5. CASE r = Shutdown /\ shutdown
  <2>. USE <1>5 DEF shutdown
  <2>1. /\ ready' \in Seq(Entries)
        /\ handler' \in [Requests -> {"none", "closed"} \cup Live \cup Outcomes]
        /\ HandlerEntries' /\ RequestEntries' /\ DataEntry' /\ handler[r] \in {"created", "resumed"}
    BY HandlerStep DEF Steps
  <2>2. QInv'
    BY <2>1 DEF QInv, TypeOK
  <2>. QED BY <2>1, <2>2, <1>1
<1>6. CASE r = Shutdown /\ finish_shutdown(outcome)
  <2>. USE <1>6 DEF finish_shutdown, Ends
  <2>1. /\ ready' \in Seq(Entries)
        /\ handler' \in [Requests -> {"none", "closed"} \cup Live \cup Outcomes]
        /\ HandlerEntries' /\ RequestEntries' /\ DataEntry' /\ handler[r] \in {"created", "resumed"}
    BY HandlerStep
  <2>2. stop_event' \in BOOLEAN /\ loop' = loop
    BY JsonRpcAssumption DEF shutdown_protocol, QInv, TypeOK
  <2>3. QInv'
    BY <2>1, <2>2 DEF QInv, TypeOK
  <2>. QED BY <2>1, <2>3, <1>1
<1>. QED BY <1>2, <1>3, <1>4, <1>5, <1>6

-----------------------------------------------------------------------------
(* The invariant, step by step                                             *)

CInv == QInv /\ CallersInv

LEMMA CallersInit == Init => CInv
<1>1. Init => CallersInv
  BY DEF Init, CallersInv, CallersAreKnown
<1>. QED BY <1>1, QueueInit DEF CInv

LEMMA CallersNext == CInv /\ [Next]_vars => CInv'
<1>. SUFFICES ASSUME CInv, [Next]_vars PROVE CInv'
  OBVIOUS
<1>. USE DEF CInv
<1>1. CASE Client
  <2>1. UNCHANGED <<awaits, future, sended, sended_count, handler>>
    BY <1>1 DEF Client, client_request, client_cancel, client_reply, client_exit, tables, tasks
  <2>2. CallersInv'
    BY <2>1, CallersStay
  <2>. QED BY <1>1, <2>2, ClientStep
<1>2. CASE read \/ data_received
  <2>1. UNCHANGED <<awaits, future, sended, sended_count, handler>>
    BY <1>2 DEF read, data_received, tables, tasks
  <2>2. CallersInv'
    BY <2>1, CallersStay
  <2>. QED BY <1>2, <2>2, ReadStep
<1>3. CASE stop \/ loop_ends
  BY <1>3, LoopSteps
<1>4. CASE Message
  <2>1. ASSUME NEW r \in Requests, refuse_request(r) \/ handle_request(r) PROVE CInv'
    <3>1. QInv' /\ handler[r] = "none"
      BY <2>1, RequestStep
    <3>2. UNCHANGED <<awaits, future, sended, sended_count>>
      BY <2>1 DEF refuse_request, handle_request, tables
    <3>3. \A s \in Requests : handler[s] = "suspended" => handler'[s] = "suspended"
      BY <2>1, <3>1 DEF refuse_request, handle_request, QInv, TypeOK
    <3>4. CallersInv'
      BY <3>2, <3>3, CallersStay
    <3>. QED BY <3>1, <3>4
  <2>2. ASSUME NEW r \in Requests, cancel_received_request(r) PROVE CInv'
    BY <2>2, CancelSteps
  <2>3. ASSUME NEW c \in Calls, handle_response(c) PROVE CInv'
    BY <2>3, ResponseStep
  <2>4. ASSUME NEW c \in Calls, handle_error(c) PROVE CInv'
    BY <2>4, LoopSteps
  <2>5. CASE handle_exit
    BY <2>5, LoopSteps
  <2>. QED BY <1>4, <2>1, <2>2, <2>3, <2>4, <2>5 DEF Message
<1>5. CASE Handler
  <2>1. ASSUME NEW r \in Requests, reply(r) PROVE CInv'
    BY <2>1, LoopSteps
  <2>2. ASSUME NEW r \in Requests, suspend(r) \/ send_request(r) PROVE CInv'
    BY <2>2, HandlerSteps DEF Outcomes
  <2>3. ASSUME NEW r \in Requests, NEW outcome \in Outcomes, finish(r, outcome) PROVE CInv'
    BY <2>3, HandlerSteps
  <2>4. CASE shutdown
    BY <2>4, HandlerSteps, JsonRpcAssumption DEF Outcomes
  <2>5. CASE cancel_all_received_request
    BY <2>5, CancelSteps
  <2>6. ASSUME NEW outcome \in Outcomes, finish_shutdown(outcome) PROVE CInv'
    BY <2>6, HandlerSteps, JsonRpcAssumption
  <2>. QED BY <1>5, <2>1, <2>2, <2>3, <2>4, <2>5, <2>6 DEF Handler
<1>6. ASSUME NEW r \in Requests, resume(r) PROVE CInv'
  BY <1>6, ResumeStep
<1>7. CASE UNCHANGED vars
  BY <1>7 DEF vars, tables, server, tasks, client, QInv, TypeOK, HandlerEntries, RequestEntries,
              DataEntry, CallersInv, CallersAreKnown
<1>. QED BY <1>1, <1>2, <1>3, <1>4, <1>5, <1>6, <1>7 DEF Next, Loop

LEMMA CallersInvariant == Spec => []CInv
BY CallersInit, CallersNext, PTL DEF Spec

(* The variables of the JSON-RPC layer keep their types, its queues of     *)
(* messages and tasks included.                                            *)
THEOREM TypeCorrect == Spec => []TypeOK
<1>1. CInv => TypeOK
  BY DEF CInv, QInv
<1>. QED BY <1>1, CallersInvariant, PTL

(* However requests, cancellations and responses interleave, the call a    *)
(* handler of the server awaits is still in _sended_request and pending.   *)
THEOREM ResponsesFindTheirCallers == Spec => []CallersAreKnown
<1>1. CInv => CallersAreKnown
  BY DEF CInv, CallersInv
<1>. QED BY <1>1, CallersInvariant, PTL

-----------------------------------------------------------------------------
(* The refinement.  A request that is not closed has no answer, and only a *)
(* cancelled one goes without.                                             *)
Revoked == revoked \cup (IF Shutdown \in sent THEN Requests \ {Shutdown} ELSE {})

AnswersInv ==
  /\ \A r \in Requests : handler[r] # "closed" => answers[r] = <<>>
  /\ \A r \in Requests : answers[r] = <<>> \/ Len(answers[r]) = 1
  /\ \A r \in Requests : handler[r] = "cancelled" => r \in cancelled
  /\ cancelled \subseteq Revoked

(* What is under way was sent by the client.                               *)
SentInv ==
  /\ \A r \in Requests :
       Has(ready, CancelEntry(r)) \/ Has(inbox, <<"cancel", r>>) => r \in revoked
  /\ Has(ready, <<"cancel_all", 0>>) => Shutdown \in sent
  /\ Has(ready, ExitEntry) \/ Has(inbox, <<"exit", 0>>) => exit

(* The end of the loop is behind the answer to the request to shut down.   *)
StopInv ==
  /\ stop_event => \/ answers[Shutdown] # <<>>
                   \/ handler[Shutdown] = "result" /\ Has(ready, <<"reply", Shutdown>>)
  /\ Has(ready, <<"stop", 0>>) => stop_event
  /\ answers[Shutdown] = <<>> => Before(ready, <<"reply", Shutdown>>, <<"stop", 0>>)
  /\ loop = "stopping" => answers[Shutdown] # <<>>

RInv == CInv /\ AnswersInv /\ SentInv /\ StopInv

(* The queue t has the end of the loop and the answer where q has them.    *)
Keeps(q, t) ==
  /\ Has(t, <<"stop", 0>>) => Has(q, <<"stop", 0>>)
  /\ Has(q, <<"reply", Shutdown>>) => Has(t, <<"reply", Shutdown>>)
  /\ Before(q, <<"reply", Shutdown>>, <<"stop", 0>>) =>
       Before(t, <<"reply", Shutdown>>, <<"stop", 0>>)

LEMMA TailKeeps ==
  ASSUME CInv, NEW e, Runs(e), e # <<"reply", Shutdown>>
  PROVE  Keeps(ready, Tail(ready))
<1>1. ready \in Seq(Entries) /\ ready # <<>> /\ Head(ready) = e
  BY RunsTail DEF CInv, QInv, TypeOK
<1>2. \A x : /\ Has(Tail(ready), x) => Has(ready, x)
             /\ Has(ready, x) => Has(Tail(ready), x) \/ x = e
  BY <1>1, TailHas
<1>. QED BY <1>1, <1>2, BeforeTail DEF Keeps

LEMMA AppendKeeps ==
  ASSUME NEW q \in Seq(Entries), NEW e \in Entries,
         e = <<"stop", 0>> => Has(q, <<"reply", Shutdown>>)
  PROVE  /\ Has(q, <<"reply", Shutdown>>) => Has(Append(q, e), <<"reply", Shutdown>>)
         /\ Before(q, <<"reply", Shutdown>>, <<"stop", 0>>) =>
              Before(Append(q, e), <<"reply", Shutdown>>, <<"stop", 0>>)
         /\ e # <<"stop", 0>> => Keeps(q, Append(q, e))
<1>1. \A x : Has(Append(q, e), x) <=> Has(q, x) \/ x = e
  BY AppendHas
<1>2. <<e>> \in Seq(Entries) /\ Append(q, e) = q \o <<e>> /\ (\A x : Has(<<e>>, x) => x = e)
  BY AppendIsConcat DEF Has
<1>3. Before(q, <<"reply", Shutdown>>, <<"stop", 0>>) =>
        Before(Append(q, e), <<"reply", Shutdown>>, <<"stop", 0>>)
  BY <1>2, BeforeConcat
<1>. QED BY <1>1, <1>3 DEF Keeps

LEMMA WakeKeeps ==
  ASSUME NEW S \in SUBSET Requests, NEW q \in Seq(Entries), Wake(S, q)
  PROVE  /\ Keeps(q, ready')
         /\ Grows(q, ready', {<<"handler", r>> : r \in Requests})
         /\ \A r \in Requests : /\ handler'[r] = handler[r] \/ handler[r] = "suspended"
                                /\ handler'[r] = handler[r] \/ handler'[r] = "resumed"
<1>1. /\ Grows(q, ready', {<<"handler", r>> : r \in Asleep(S)})
      /\ \A x : Has(q, x) => Has(ready', x)
      /\ Before(q, <<"reply", Shutdown>>, <<"stop", 0>>) =>
           Before(ready', <<"reply", Shutdown>>, <<"stop", 0>>)
      /\ handler' = [r \in Requests |-> IF r \in Asleep(S) THEN "resumed" ELSE handler[r]]
  BY WakeGrows
<1>2. <<"stop", 0>> \notin {<<"handler", r>> : r \in Asleep(S)}
  OBVIOUS
<1>3. Has(ready', <<"stop", 0>>) => Has(q, <<"stop", 0>>)
  BY <1>1, <1>2 DEF Grows
<1>4. Grows(q, ready', {<<"handler", r>> : r \in Requests})
  BY <1>1 DEF Grows, Asleep
<1>. QED BY <1>1, <1>3, <1>4 DEF Keeps, Asleep

LEMMA KeepsTwice ==
  ASSUME NEW q, NEW s, NEW t, Keeps(q, s), Keeps(s, t)
  PROVE  Keeps(q, t)
BY DEF Keeps

(* The steps that are none for the client: no request is answered or       *)
(* closed, and nothing stops.                                              *)
Hidden(N) ==
  /\ Grows(ready, ready', N) /\ Keeps(ready, ready')
  /\ \A r \in Requests : CancelEntry(r) \notin N
  /\ ExitEntry \notin N
  /\ <<"cancel_all", 0>> \in N => Shutdown \in sent
  /\ \A r \in Requests : /\ handler'[r] = "closed" <=> handler[r] = "closed"
                         /\ handler[r] = "result" => handler'[r] = "result"
                         /\ handler'[r] = "cancelled" => r \in cancelled'
  /\ cancelled' \subseteq Revoked
  /\ UNCHANGED <<answers, inbox, client>>

LEMMA HiddenStep ==
  ASSUME RInv, NEW N, Hidden(N)
  PROVE  /\ AnswersInv' /\ SentInv'
         /\ UNCHANGED stop_event /\ (loop' = "stopping" => loop = "stopping") => StopInv'
         /\ (loop = "stopped" <=> loop' = "stopped") => UNCHANGED Lifecycle!vars
<1>. USE DEF Hidden, RInv, client
<1>1. AnswersInv'
  BY DEF AnswersInv, Revoked
<1>2. SentInv'
  BY DEF SentInv, Grows
<1>3. ASSUME UNCHANGED stop_event, loop' = "stopping" => loop = "stopping" PROVE StopInv'
  BY <1>3, JsonRpcAssumption DEF StopInv, Keeps
<1>4. ASSUME loop = "stopped" <=> loop' = "stopped" PROVE UNCHANGED Lifecycle!vars
  <2>1. \A r \in Requests : Status(r)' = Status(r)
    BY DEF Status
  <2>. QED BY <2>1, <1>4 DEF Lifecycle!vars
<1>. QED BY <1>1, <1>2, <1>3, <1>4

(* What is to be shown of every step.                                      *)
Refines == AnswersInv' /\ SentInv' /\ StopInv' /\ [Lifecycle!Next]_(Lifecycle!vars)

LEMMA HiddenRefines ==
  ASSUME RInv, NEW N, Hidden(N), UNCHANGED <<stop_event, loop>>
  PROVE  Refines
BY HiddenStep DEF Refines

(* What is the same for every entry that a step takes out of the queue.    *)
LEMMA TakenOut ==
  ASSUME RInv, NEW e, Runs(e)
  PROVE  /\ Tail(ready) \in Seq(Entries) /\ Has(ready, e) /\ ready # <<>> /\ Head(ready) = e
         /\ Grows(ready, Tail(ready), {})
         /\ e # <<"reply", Shutdown>> => Keeps(ready, Tail(ready))
         /\ loop # "stopped"
         /\ cancelled \subseteq Revoked
         /\ \A r \in Requests : handler[r] = "cancelled" => r \in cancelled
  BY RunsTail, TailKeeps DEF RInv, CInv, QInv, TypeOK, AnswersInv

LEMMA HiddenTail ==
  ASSUME RInv, NEW e, Runs(e), e # <<"reply", Shutdown>>, ready' = Tail(ready),
         UNCHANGED <<handler, cancelled, answers, inbox, client>>
  PROVE  Hidden({})
BY TakenOut DEF Hidden

(* A handler begins, waits or ends, or makes something else ready.         *)
LEMMA HiddenTask ==
  ASSUME RInv, NEW e, Runs(e), e # <<"reply", Shutdown>>,
         NEW x, ready' = Tail(ready) \/ (ready' = Append(Tail(ready), x) /\ x \in Entries),
         x # <<"stop", 0>>, x # ExitEntry, \A r \in Requests : x # CancelEntry(r),
         x = <<"cancel_all", 0>> => Shutdown \in sent,
         NEW r \in Requests, NEW h, handler' = [handler EXCEPT ![r] = h],
         handler[r] \notin Outcomes \cup {"closed"}, h # "closed", h = "cancelled" => r \in cancelled,
         UNCHANGED <<cancelled, answers, inbox, client>>
  PROVE  Hidden({x})
<1>1. /\ Tail(ready) \in Seq(Entries) /\ Grows(ready, Tail(ready), {})
      /\ Keeps(ready, Tail(ready)) /\ cancelled \subseteq Revoked
      /\ \A s \in Requests : handler[s] = "cancelled" => s \in cancelled
  BY TakenOut
<1>2. Grows(Tail(ready), ready', {x}) /\ Keeps(Tail(ready), ready')
  <2>1. Grows(Tail(ready), Tail(ready), {x}) /\ Keeps(Tail(ready), Tail(ready))
    BY DEF Grows, Keeps
  <2>. QED BY <1>1, <2>1, AppendGrows, AppendKeeps
<1>3. Grows(ready, ready', {x}) /\ Keeps(ready, ready')
  BY <1>1, <1>2, GrowsTwice, KeepsTwice
<1>4. \A s \in Requests : handler'[s] = IF s = r THEN h ELSE handler[s]
  BY DEF RInv, CInv, QInv, TypeOK
<1>. QED BY <1>1, <1>3, <1>4 DEF Hidden, Outcomes

(* Handlers wake up.                                                       *)
LEMMA HiddenWake ==
  ASSUME RInv, NEW S \in SUBSET Requests, NEW q \in Seq(Entries),
         Grows(ready, q, {}), Keeps(ready, q), Wake(S, q),
         cancelled \subseteq cancelled', cancelled' \subseteq Revoked,
         UNCHANGED <<answers, inbox, client>>
  PROVE  Hidden({<<"handler", r>> : r \in Requests})
<1>. DEFINE N == {<<"handler", r>> : r \in Requests}
<1>1. /\ Keeps(q, ready') /\ Grows(q, ready', N)
      /\ \A r \in Requests : /\ handler'[r] = handler[r] \/ handler[r] = "suspended"
                             /\ handler'[r] = handler[r] \/ handler'[r] = "resumed"
  BY WakeKeeps
<1>2. Keeps(ready, ready') /\ Grows(ready, ready', N)
  BY <1>1, GrowsTwice, KeepsTwice
<1>3. /\ \A r \in Requests : CancelEntry(r) \notin N
      /\ ExitEntry \notin N /\ <<"cancel_all", 0>> \notin N
  BY DEF CancelEntry, ExitEntry
<1>4. \A r \in Requests : handler[r] = "cancelled" => r \in cancelled
  BY DEF RInv, AnswersInv
<1>. QED BY <1>1, <1>2, <1>3, <1>4 DEF Hidden

LEMMA TasksRefine ==
  ASSUME RInv, NEW r \in Requests, NEW outcome \in Outcomes,
         \/ handle_request(r) \/ suspend(r) \/ send_request(r) \/ finish(r, outcome)
         \/ r = Shutdown /\ shutdown
         \/ r = Shutdown /\ finish_shutdown(outcome) /\ outcome # "result"
  PROVE  Refines
<1>. USE DEF server
<1>0. /\ ReqEntry(r) # <<"reply", Shutdown>> /\ <<"handler", r>> # <<"reply", Shutdown>>
      /\ \A x \in {<<"handler", r>>, <<"reply", r>>, <<"cancel_all", 0>>} :
           /\ x \in Entries /\ x # <<"stop", 0>> /\ x # ExitEntry
           /\ \A s \in Requests : x # CancelEntry(s)
      /\ <<"handler", r>> # <<"cancel_all", 0>> /\ <<"reply", r>> # <<"cancel_all", 0>>
  BY EntryTypes DEF ReqEntry, ExitEntry, CancelEntry
<1>1. Runs(<<"handler", r>>) => handler[r] \in {"created", "resumed"}
  BY RunsTail DEF RInv, CInv, QInv, TypeOK, HandlerEntries
<1>2. CASE handle_request(r)
  <2>1. handler[r] = "none" /\ Runs(ReqEntry(r))
    BY <1>2, RequestStep DEF RInv, CInv, handle_request, Handles, ReqEntry
  <2>2. Hidden({<<"handler", r>>})
    BY <1>0, <1>2, <2>1, HiddenTask DEF handle_request, Outcomes
  <2>. QED BY <1>2, <2>2, HiddenRefines DEF handle_request
<1>3. CASE suspend(r)
  <2>1. Hidden({<<"handler", r>>})
    BY <1>0, <1>1, <1>3, HiddenTask DEF suspend, Steps, Outcomes
  <2>. QED BY <1>3, <2>1, HiddenRefines DEF suspend
<1>4. CASE send_request(r)
  <2>1. Hidden({<<"handler", r>>})
    BY <1>0, <1>1, <1>4, HiddenTask DEF send_request, Steps, Outcomes
  <2>. QED BY <1>4, <2>1, HiddenRefines DEF send_request
<1>5. CASE finish(r, outcome)
  <2>1. Hidden({<<"reply", r>>})
    BY <1>0, <1>1, <1>5, HiddenTask DEF finish, Ends, Outcomes
  <2>. QED BY <1>5, <2>1, HiddenRefines DEF finish
<1>6. CASE r = Shutdown /\ shutdown
  <2>1. Shutdown \in sent
    BY <1>1, <1>6 DEF shutdown, Steps, RInv, CInv, QInv, RequestEntries
  <2>2. Hidden({<<"cancel_all", 0>>})
    BY <1>0, <1>1, <1>6, <2>1, HiddenTask DEF shutdown, Steps, Outcomes
  <2>. QED BY <1>6, <2>2, HiddenRefines DEF shutdown
<1>7. CASE r = Shutdown /\ finish_shutdown(outcome) /\ outcome # "result"
  <2>1. Hidden({<<"reply", r>>})
    BY <1>0, <1>1, <1>7, HiddenTask DEF finish_shutdown, Ends, Outcomes
  <2>. QED BY <1>7, <2>1, HiddenRefines DEF finish_shutdown
<1>. QED BY <1>2, <1>3, <1>4, <1>5, <1>6, <1>7

LEMMA WakingRefines ==
  ASSUME RInv,
         \/ \E r \in Requests : cancel_received_request(r) \/ resume(r)
         \/ cancel_all_received_request
         \/ \E c \in Calls : handle_response(c)
  PROVE  Refines
<1>. USE DEF server
<1>0. cancelled \subseteq Revoked /\ received \subseteq Requests
  BY DEF RInv, AnswersInv, CInv, QInv, TypeOK
<1>1. ASSUME NEW r \in Requests, cancel_received_request(r) PROVE Refines
  <2>1. Runs(CancelEntry(r))
    BY <1>1 DEF cancel_received_request, Handles, CancelEntry
  <2>2. r \in revoked
    BY <2>1, TakenOut DEF RInv, SentInv
  <2>3. cancelled \subseteq cancelled' /\ cancelled' \subseteq Revoked
    BY <1>0, <1>1, <2>2 DEF cancel_received_request, Revoked
  <2>4. CancelEntry(r) # <<"reply", Shutdown>>
    BY DEF CancelEntry
  <2>5. Hidden({<<"handler", s>> : s \in Requests})
    BY <1>0, <1>1, <2>1, <2>3, <2>4, TakenOut, HiddenWake DEF cancel_received_request, CancelTasks
  <2>. QED BY <1>1, <2>5, HiddenRefines DEF cancel_received_request
<1>2. ASSUME NEW r \in Requests, resume(r) PROVE Refines
  <2>1. ready \in Seq(Entries) /\ Grows(ready, ready, {}) /\ Keeps(ready, ready)
    BY DEF RInv, CInv, QInv, TypeOK, Grows, Keeps
  <2>2. Hidden({<<"handler", s>> : s \in Requests})
    BY <1>0, <1>2, <2>1, HiddenWake DEF resume
  <2>. QED BY <1>2, <2>2, HiddenRefines DEF resume
<1>3. CASE cancel_all_received_request
  <2>1. Runs(<<"cancel_all", 0>>)
    BY <1>3 DEF cancel_all_received_request
  <2>2. Shutdown \in sent
    BY <2>1, TakenOut DEF RInv, SentInv
  <2>3. cancelled \subseteq cancelled' /\ cancelled' \subseteq Revoked
    BY <1>0, <1>3, <2>2 DEF cancel_all_received_request, Revoked
  <2>4. /\ Wake(received, Tail(ready)) /\ UNCHANGED <<answers, inbox, client>>
        /\ Tail(ready) \in Seq(Entries) /\ Grows(ready, Tail(ready), {})
        /\ Keeps(ready, Tail(ready))
    BY <1>3, <2>1, TakenOut DEF cancel_all_received_request, CancelTasks
  <2>5. Hidden({<<"handler", s>> : s \in Requests})
    BY <1>0, <2>3, <2>4, HiddenWake
  <2>. QED BY <1>3, <2>5, HiddenRefines DEF cancel_all_received_request
<1>4. ASSUME NEW c \in Calls, handle_response(c) PROVE Refines
  <2>1. Runs(<<"message", <<"response", c>> >>)
    BY <1>4 DEF handle_response, Handles
  <2>2. \E S \in SUBSET Requests : Wake(S, Tail(ready))
    BY <1>4 DEF handle_response, Resolve
  <2>3. /\ UNCHANGED <<cancelled, answers, inbox, client>>
        /\ Tail(ready) \in Seq(Entries) /\ Grows(ready, Tail(ready), {})
        /\ Keeps(ready, Tail(ready))
    BY <1>4, <2>1, TakenOut DEF handle_response
  <2>4. Hidden({<<"handler", s>> : s \in Requests})
    BY <1>0, <2>2, <2>3, HiddenWake
  <2>. QED BY <1>4, <2>4, HiddenRefines DEF handle_response
<1>. QED BY <1>1, <1>2, <1>3, <1>4

(* The steps that read the messages of the client, ...                     *)
LEMMA ReadingRefines ==
  ASSUME RInv, read \/ data_received
  PROVE  Refines
<1>. USE DEF tasks, tables
<1>1. CASE read
  <2>1. ready \in Seq(Entries) /\ cancelled \subseteq Revoked
        /\ \A r \in Requests : handler[r] = "cancelled" => r \in cancelled
    BY DEF RInv, CInv, QInv, TypeOK, AnswersInv
  <2>2. Grows(ready, ready', {<<"data", 0>>}) /\ Keeps(ready, ready')
    BY <1>1, <2>1, AppendGrows, AppendKeeps, EntryTypes DEF read
  <2>3. Hidden({<<"data", 0>>})
    BY <1>1, <2>1, <2>2 DEF Hidden, read, CancelEntry, ExitEntry
  <2>. QED BY <1>1, <2>3, HiddenRefines DEF read
<1>2. CASE data_received
  <2>. USE <1>2 DEF data_received
  <2>. DEFINE e == <<"message", Head(inbox)>>
              q == Append(Tail(ready), e)
  <2>1. /\ Tail(ready) \in Seq(Entries) /\ Grows(ready, Tail(ready), {}) /\ Keeps(ready, Tail(ready))
        /\ Has(ready, <<"data", 0>>) /\ ready # <<>> /\ Head(ready) = <<"data", 0>>
        /\ loop # "stopped" /\ ready \in Seq(Entries)
    BY TakenOut DEF RInv, CInv, QInv, TypeOK
  <2>2. inbox # <<>> /\ inbox \in Seq(Messages)
    BY <2>1 DEF RInv, CInv, QInv, DataEntry, TypeOK
  <2>3. /\ Head(inbox) \in Messages /\ Has(inbox, Head(inbox))
        /\ \A x : Has(Tail(inbox), x) => Has(inbox, x)
    BY <2>2, TailHas
  <2>4. /\ e \in Entries /\ q \in Seq(Entries)
        /\ ready' = IF stop_event THEN Append(q, <<"stop", 0>>) ELSE q
    <3>1. e \in Entries
      BY <2>3, EntryTypes
    <3>2. Tail(ready) \o <<e>> = q /\ q \in Seq(Entries)
      BY <2>1, <3>1, AppendIsConcat, AppendProperties
    <3>3. q \o <<>> = q /\ q \o << <<"stop", 0>> >> = Append(q, <<"stop", 0>>)
      BY <3>2, ConcatEmptySeq, AppendIsConcat, EntryTypes
    <3>. QED BY <3>1, <3>2, <3>3
  <2>5. e # <<"stop", 0>>
    OBVIOUS
  <2>6. ASSUME NEW x PROVE Has(q, x) <=> Has(Tail(ready), x) \/ x = e
    <3>. HIDE DEF e
    <3>. QED BY <2>1, <2>4, AppendHas
  <2>7. Keeps(Tail(ready), q)
    BY <2>1, <2>4, <2>5, AppendKeeps
  <2>8. ASSUME NEW x
        PROVE  Has(Append(q, <<"stop", 0>>), x) <=> Has(q, x) \/ x = <<"stop", 0>>
    <3>. HIDE DEF q
    <3>. QED BY <2>4, AppendHas, EntryTypes
  <2>. HIDE DEF q
  <2>9. \A x : Has(ready', x) => \/ Has(ready, x) \/ x = e
                                 \/ stop_event /\ x = <<"stop", 0>>
    BY <2>1, <2>4, <2>6, <2>8 DEF Grows
  <2>10. AnswersInv'
    BY DEF RInv, AnswersInv, Revoked, client
  <2>11. SentInv'
    <3>1. ASSUME NEW r \in Requests, Has(ready', CancelEntry(r)) \/ Has(inbox', <<"cancel", r>>)
          PROVE  r \in revoked
      <4>1. CancelEntry(r) # <<"stop", 0>> /\ (CancelEntry(r) = e => Head(inbox) = <<"cancel", r>>)
        BY DEF CancelEntry
      <4>2. Has(ready, CancelEntry(r)) \/ Has(inbox, <<"cancel", r>>)
        BY <2>3, <2>9, <3>1, <4>1
      <4>. QED BY <4>2 DEF RInv, SentInv
    <3>2. ASSUME Has(ready', ExitEntry) \/ Has(inbox', <<"exit", 0>>) PROVE exit
      BY <2>3, <2>9, <3>2 DEF RInv, SentInv, ExitEntry
    <3>3. Has(ready', <<"cancel_all", 0>>) => Shutdown \in sent
      BY <2>9 DEF RInv, SentInv
    <3>. QED BY <3>1, <3>2, <3>3 DEF SentInv, client
  <2>12. StopInv'
    <3>1. Keeps(ready, q)
      BY <2>1, <2>7, KeepsTwice
    <3>2. Has(ready, <<"reply", Shutdown>>) => Has(ready', <<"reply", Shutdown>>)
      BY <2>4, <2>8, <3>1 DEF Keeps
    <3>3. Has(ready', <<"stop", 0>>) => stop_event
      BY <2>5, <2>9 DEF RInv, StopInv
    <3>4. ASSUME answers[Shutdown] = <<>>
          PROVE  Before(ready', <<"reply", Shutdown>>, <<"stop", 0>>)
      <4>1. Before(q, <<"reply", Shutdown>>, <<"stop", 0>>)
        BY <3>1, <3>4 DEF Keeps, RInv, StopInv
      <4>2. stop_event => Has(q, <<"reply", Shutdown>>)
        BY <3>1, <3>4 DEF Keeps, RInv, StopInv
      <4>. QED BY <2>4, <4>1, <4>2, AppendKeeps, EntryTypes
    <3>. QED BY <3>2, <3>3, <3>4 DEF RInv, StopInv
  <2>13. UNCHANGED Lifecycle!vars
    <3>1. \A r \in Requests : Status(r)' = Status(r)
      BY DEF Status, client
    <3>. QED BY <3>1 DEF Lifecycle!vars, client
  <2>. QED BY <2>10, <2>11, <2>12, <2>13 DEF Refines
<1>. QED BY <1>1, <1>2

(* ... and those that stop the server.                                     *)
LEMMA StopsRefine ==
  ASSUME RInv,
         \/ stop \/ loop_ends \/ handle_exit \/ finish_shutdown("result")
         \/ \E c \in Calls : handle_error(c)
  PROVE  Refines
<1>. USE DEF tasks, tables
<1>0. /\ ready \in Seq(Entries) /\ cancelled \subseteq Revoked
      /\ \A r \in Requests : /\ handler[r] = "cancelled" => r \in cancelled
                             /\ answers[r] # <<>> => r \in sent /\ Len(answers[r]) = 1
      /\ Shutdown \in Requests
  BY JsonRpcAssumption DEF RInv, CInv, QInv, TypeOK, AnswersInv, RequestEntries
<1>1. CASE stop
  <2>. USE <1>1 DEF stop
  <2>1. Hidden({})
    BY HiddenTail, <1>1
  <2>2. AnswersInv' /\ SentInv' /\ UNCHANGED Lifecycle!vars
    BY <2>1, HiddenStep, TakenOut
  <2>3. answers[Shutdown] # <<>>
    <3>1. Len(ready) \in Nat /\ 1 \in 1 .. Len(ready) /\ ready[1] = <<"stop", 0>>
      BY <1>0, TakenOut
    <3>. QED BY <3>1 DEF Before, RInv, StopInv
  <2>4. StopInv'
    BY <2>1, <2>3 DEF Hidden, Keeps, RInv, StopInv
  <2>. QED BY <2>2, <2>4 DEF Refines
<1>2. ASSUME loop # "stopped", loop' = "stopped", exit \/ answers[Shutdown] # <<>>,
             Hidden({}), UNCHANGED stop_event
      PROVE  Refines
  <2>1. AnswersInv' /\ SentInv' /\ StopInv'
    BY <1>2, HiddenStep
  <2>2. \A r \in Requests : Status(r)' = Status(r)
    BY <1>2 DEF Status, Hidden, client
  <2>3. ASSUME answers[Shutdown] # <<>> PROVE Status(Shutdown) = "answered"
    <3>1. Shutdown \in sent /\ Len(answers[Shutdown]) = 1
      BY <1>0, <2>3
    <3>. QED BY <2>3, <3>1 DEF Status
  <2>4. Lifecycle!Stop
    BY <1>0, <1>2, <2>2, <2>3 DEF Lifecycle!Stop, Hidden, client
  <2>. QED BY <2>1, <2>4 DEF Refines, Lifecycle!Next
<1>3. CASE loop_ends
  <2>1. Grows(ready, ready, {}) /\ Keeps(ready, ready)
    BY DEF Grows, Keeps
  <2>2. Hidden({})
    BY <1>0, <1>3, <2>1 DEF Hidden, loop_ends
  <2>3. answers[Shutdown] # <<>>
    BY <1>3 DEF loop_ends, RInv, StopInv
  <2>. QED BY <1>2, <1>3, <2>2, <2>3 DEF loop_ends
<1>4. CASE handle_exit
  <2>1. Runs(ExitEntry) /\ ExitEntry # <<"reply", Shutdown>>
    BY <1>4 DEF handle_exit, Handles, ExitEntry
  <2>2. Hidden({})
    BY <1>4, <2>1, HiddenTail DEF handle_exit
  <2>3. exit /\ loop # "stopped"
    BY <2>1, TakenOut DEF RInv, SentInv
  <2>. QED BY <1>2, <1>4, <2>2, <2>3 DEF handle_exit
<1>5. CASE finish_shutdown("result")
  <2>. USE <1>5 DEF finish_shutdown, Ends
  <2>. DEFINE x == <<"reply", Shutdown>>
  <2>1. handler[Shutdown] \in {"created", "resumed"} /\ Runs(<<"handler", Shutdown>>)
    BY <1>0, RunsTail DEF RInv, CInv, QInv, HandlerEntries
  <2>2. /\ x \in Entries /\ <<"handler", Shutdown>> # x
        /\ x # <<"stop", 0>> /\ x # ExitEntry /\ x # <<"cancel_all", 0>>
        /\ \A s \in Requests : x # CancelEntry(s)
    BY <1>0, EntryTypes DEF ExitEntry, CancelEntry
  <2>3. Hidden({x})
    BY <1>0, <2>1, <2>2, HiddenTask DEF Outcomes
  <2>4. stop_event' = (stop_event \/ Stdio) /\ loop' = loop
    BY DEF shutdown_protocol
  <2>5. AnswersInv' /\ SentInv' /\ UNCHANGED Lifecycle!vars
    BY <2>3, <2>4, HiddenStep
  <2>6. Has(ready', x) /\ handler'[Shutdown] = "result"
    <3>1. Tail(ready) \in Seq(Entries)
      BY <2>1, TakenOut
    <3>2. Has(Append(Tail(ready), x), x)
      BY <2>2, <3>1, AppendHas
    <3>3. handler'[Shutdown] = "result"
      BY <1>0 DEF RInv, CInv, QInv, TypeOK
    <3>. QED BY <3>2, <3>3
  <2>7. StopInv'
    <3>1. Keeps(ready, ready') /\ UNCHANGED answers
      BY <2>3 DEF Hidden
    <3>2. Has(ready', <<"stop", 0>>) => stop_event'
      BY <2>4, <3>1 DEF Keeps, RInv, StopInv
    <3>. QED BY <2>4, <2>6, <3>1, <3>2 DEF Keeps, RInv, StopInv
  <2>. QED BY <2>5, <2>7 DEF Refines
<1>6. ASSUME NEW c \in Calls, handle_error(c) PROVE Refines
  <2>1. Hidden({})
    BY <1>6, HiddenTail DEF handle_error, Handles
  <2>. QED BY <1>6, <2>1, HiddenRefines DEF handle_error, server
<1>. QED BY <1>1, <1>3, <1>4, <1>5, <1>6

LEMMA SendingRefines ==
  ASSUME RInv, Client
  PROVE  Refines
<1>. USE DEF tables, server, tasks
<1>0. ready \in Seq(Entries) /\ inbox \in Seq(Messages)
  BY DEF RInv, CInv, QInv, TypeOK
<1>1. ASSUME NEW m \in Messages, Sends(m), UNCHANGED <<ready, answers, handler, cancelled, server>>,
             revoked \subseteq revoked', sent \subseteq sent', exit => exit',
             \A r \in Requests : m = <<"cancel", r>> => r \in revoked',
             m = <<"exit", 0>> => exit'
      PROVE  AnswersInv' /\ SentInv' /\ StopInv'
  <2>1. \A x : Has(inbox', x) => Has(inbox, x) \/ x = m
    BY <1>0, <1>1, AppendGrows DEF Sends, Grows
  <2>2. Revoked \subseteq Revoked'
    BY <1>1 DEF Revoked
  <2>3. AnswersInv'
    BY <1>1, <2>2 DEF RInv, AnswersInv
  <2>4. SentInv'
    BY <1>1, <2>1 DEF RInv, SentInv
  <2>. QED BY <1>1, <2>3, <2>4 DEF RInv, StopInv
<1>2. ASSUME NEW r \in Requests, client_request(r) PROVE Refines
  <2>1. AnswersInv' /\ SentInv' /\ StopInv'
    BY <1>1, <1>2, EntryTypes DEF client_request
  <2>2. answers[r] = <<>> /\ handler[r] # "closed" /\ r \notin sent
    BY <1>2 DEF RInv, CInv, QInv, RequestEntries, AnswersInv, client_request
  <2>3. Status(r) = "unsent" /\ Status(r)' = "open"
    BY <1>2, <2>2 DEF Status, client_request
  <2>4. \A s \in Requests : s # r => Status(s)' = Status(s)
    BY <1>2 DEF Status, client_request
  <2>5. Revoked' = IF r = Shutdown THEN Revoked \cup (Requests \ {r}) ELSE Revoked
    BY <1>2 DEF Revoked, client_request
  <2>6. Lifecycle!Send(r)
    BY <1>2, <2>3, <2>4, <2>5 DEF Lifecycle!Send, client_request, Revoked
  <2>. QED BY <2>1, <2>6 DEF Refines, Lifecycle!Next
<1>3. ASSUME UNCHANGED <<sent, answers, handler>>
      PROVE  \A r \in Requests : Status(r)' = Status(r)
  BY <1>3 DEF Status
<1>4. ASSUME NEW r \in Requests, client_cancel(r) PROVE Refines
  <2>1. AnswersInv' /\ SentInv' /\ StopInv'
    BY <1>1, <1>4, EntryTypes DEF client_cancel
  <2>2. Lifecycle!Revoke(r)
    BY <1>3, <1>4 DEF Lifecycle!Revoke, client_cancel
  <2>. QED BY <1>4, <2>1, <2>2 DEF Refines, Lifecycle!Next
<1>5. ASSUME NEW c \in Calls, NEW kind \in {"response", "error"}, client_reply(c, kind)
      PROVE  Refines
  <2>1. AnswersInv' /\ SentInv' /\ StopInv'
    BY <1>1, <1>5, EntryTypes DEF client_reply
  <2>2. UNCHANGED Lifecycle!vars
    BY <1>3, <1>5 DEF Lifecycle!vars, client_reply
  <2>. QED BY <2>1, <2>2 DEF Refines
<1>6. CASE client_exit
  <2>1. AnswersInv' /\ SentInv' /\ StopInv'
    BY <1>1, <1>6, EntryTypes DEF client_exit
  <2>2. Lifecycle!Exit
    BY <1>3, <1>6 DEF Lifecycle!Exit, client_exit
  <2>. QED BY <2>1, <2>2 DEF Refines, Lifecycle!Next
<1>. QED BY <1>2, <1>4, <1>5, <1>6 DEF Client

(* The steps that answer a request, or leave it.                           *)
LEMMA AnswersRefine ==
  ASSUME RInv, NEW r \in Requests, refuse_request(r) \/ reply(r)
  PROVE  Refines
<1>. USE DEF tables, server, client
<1>. DEFINE e == IF refuse_request(r) THEN ReqEntry(r) ELSE <<"reply", r>>
<1>1. /\ Runs(e) /\ (refuse_request(r) => e = ReqEntry(r)) /\ (~refuse_request(r) => e = <<"reply", r>>)
      /\ ready' = Tail(ready) /\ handler' = [handler EXCEPT ![r] = "closed"]
      /\ \/ \E x \in {"result", "error"} : answers' = [answers EXCEPT ![r] = Append(@, x)]
         \/ ~refuse_request(r) /\ answers' = answers /\ handler[r] = "cancelled"
      /\ refuse_request(r) => r # Shutdown
      /\ UNCHANGED <<stop_event, loop, cancelled, inbox, client>>
  BY DEF refuse_request, reply, Handles, Answer, ReqEntry
<1>. HIDE DEF e
<1>2. /\ Tail(ready) \in Seq(Entries) /\ Grows(ready, Tail(ready), {}) /\ loop # "stopped"
      /\ e # <<"reply", Shutdown>> => Keeps(ready, Tail(ready))
      /\ cancelled \subseteq Revoked
      /\ handler[r] = "cancelled" => r \in cancelled
      /\ Has(ready, e)
  BY <1>1, TakenOut
<1>3. /\ r \in sent /\ handler[r] # "closed"
      /\ handler[r] \in {"none"} \cup Outcomes
  <2>1. CASE refuse_request(r)
    BY <2>1, RequestStep DEF RInv, CInv
  <2>2. CASE ~refuse_request(r)
    <3>1. handler[r] \in Outcomes
      BY <2>2 DEF reply, Outcomes
    <3>. QED BY <3>1 DEF RInv, CInv, QInv, RequestEntries, Outcomes
  <2>. QED BY <2>1, <2>2 DEF Outcomes
<1>4. answers[r] = <<>> /\ handler \in [Requests -> {"none", "closed"} \cup Live \cup Outcomes]
      /\ answers \in [Requests -> Seq({"result", "error"})]
  BY <1>3 DEF RInv, AnswersInv, CInv, QInv, TypeOK
<1>5. \/ Len(answers'[r]) = 1 /\ answers'[r] # <<>>
      \/ ~refuse_request(r) /\ answers'[r] = <<>> /\ handler[r] = "cancelled"
  <2>1. ASSUME NEW x, answers' = [answers EXCEPT ![r] = Append(@, x)]
        PROVE  Len(answers'[r]) = 1 /\ answers'[r] # <<>>
    <3>1. answers'[r] = <<x>>
      BY <1>4, <2>1
    <3>. QED BY <3>1
  <2>. QED BY <1>1, <1>4, <2>1
<1>6. \A s \in Requests : s # r => answers'[s] = answers[s] /\ handler'[s] = handler[s]
  BY <1>1, <1>4
<1>7. handler'[r] = "closed"
  BY <1>1, <1>4
<1>8. AnswersInv'
  BY <1>1, <1>5, <1>6, <1>7 DEF RInv, AnswersInv, Revoked
<1>9. SentInv'
  BY <1>1, <1>2 DEF RInv, SentInv, Grows
<1>10. StopInv'
  <2>0. Has(ready', <<"stop", 0>>) => Has(ready, <<"stop", 0>>)
    BY <1>1, <1>2 DEF Grows
  <2>1. CASE r = Shutdown
    <3>1. e = <<"reply", Shutdown>> /\ ~refuse_request(r)
      BY <1>1, <2>1
    <3>2. CASE answers'[Shutdown] # <<>>
      BY <1>1, <2>0, <3>2 DEF RInv, StopInv
    <3>3. CASE answers'[Shutdown] = <<>>
      <4>1. handler[Shutdown] = "cancelled" /\ answers[Shutdown] = <<>>
        BY <1>4, <1>5, <2>1, <3>3
      <4>2. ~stop_event /\ ~Has(ready, <<"stop", 0>>) /\ loop # "stopping"
        BY <4>1 DEF RInv, StopInv
      <4>3. ~Has(ready', <<"stop", 0>>)
        BY <2>0, <4>2
      <4>4. Before(ready', <<"reply", Shutdown>>, <<"stop", 0>>)
        BY <4>3 DEF Before, Has
      <4>. QED BY <1>1, <4>2, <4>3, <4>4 DEF StopInv
    <3>. QED BY <3>2, <3>3
  <2>2. CASE r # Shutdown
    <3>1. e # <<"reply", Shutdown>>
      BY <1>1, <2>2 DEF ReqEntry
    <3>2. Keeps(ready, ready')
      BY <1>1, <1>2, <3>1
    <3>3. answers'[Shutdown] = answers[Shutdown] /\ handler'[Shutdown] = handler[Shutdown]
      BY <1>6, <2>2, JsonRpcAssumption
    <3>. QED BY <1>1, <3>2, <3>3 DEF Keeps, RInv, StopInv
  <2>. QED BY <2>1, <2>2
<1>11. Status(r) = "open" /\ (\A s \in Requests : s # r => Status(s)' = Status(s))
  BY <1>1, <1>3, <1>4, <1>6 DEF Status
<1>12. CASE answers'[r] # <<>>
  <2>1. Status(r)' = "answered"
    BY <1>1, <1>3, <1>5, <1>12 DEF Status
  <2>2. Lifecycle!Answer(r)
    BY <1>1, <1>2, <1>11, <2>1 DEF Lifecycle!Answer
  <2>. QED BY <1>8, <1>9, <1>10, <2>2 DEF Refines, Lifecycle!Next
<1>13. CASE answers'[r] = <<>>
  <2>1. r \in Revoked
    BY <1>2, <1>5, <1>13
  <2>2. Status(r)' = "dropped"
    BY <1>1, <1>3, <1>7, <1>13 DEF Status
  <2>3. Lifecycle!Drop(r)
    BY <1>1, <1>2, <1>11, <2>1, <2>2 DEF Lifecycle!Drop, Revoked
  <2>. QED BY <1>8, <1>9, <1>10, <2>3 DEF Refines, Lifecycle!Next
<1>. QED BY <1>12, <1>13

LEMMA RefineInit == Init => AnswersInv /\ SentInv /\ StopInv /\ Lifecycle!Init
<1>. SUFFICES ASSUME Init PROVE AnswersInv /\ SentInv /\ StopInv /\ Lifecycle!Init
  OBVIOUS
<1>1. \A x : ~Has(ready, x) /\ ~Has(inbox, x)
  BY DEF Init, Has
<1>2. \A r \in Requests : Status(r) = "unsent"
  BY DEF Init, Status
<1>3. Lifecycle!Init
  BY <1>2 DEF Lifecycle!Init, Init
<1>4. AnswersInv /\ SentInv
  BY <1>1 DEF Init, AnswersInv, SentInv, Revoked
<1>5. StopInv
  BY <1>1 DEF Init, StopInv, Before
<1>. QED BY <1>3, <1>4, <1>5

LEMMA RefineNext == RInv /\ [Next]_vars => Refines
<1>. SUFFICES ASSUME RInv, [Next]_vars PROVE Refines
  OBVIOUS
<1>1. CASE Client
  BY <1>1, SendingRefines
<1>2. CASE read \/ data_received
  BY <1>2, ReadingRefines
<1>3. CASE stop \/ loop_ends
  BY <1>3, StopsRefine
<1>4. CASE Message
  <2>1. ASSUME NEW r \in Requests, refuse_request(r) PROVE Refines
    BY <2>1, AnswersRefine
  <2>2. ASSUME NEW r \in Requests, handle_request(r) PROVE Refines
    BY <2>2, TasksRefine DEF Outcomes
  <2>3. ASSUME NEW r \in Requests, cancel_received_request(r) PROVE Refines
    BY <2>3, WakingRefines
  <2>4. ASSUME NEW c \in Calls, handle_response(c) PROVE Refines
    BY <2>4, WakingRefines
  <2>5. ASSUME NEW c \in Calls, handle_error(c) PROVE Refines
    BY <2>5, StopsRefine
  <2>6. CASE handle_exit
    BY <2>6, StopsRefine
  <2>. QED BY <1>4, <2>1, <2>2, <2>3, <2>4, <2>5, <2>6 DEF Message
<1>5. CASE Handler
  <2>1. ASSUME NEW r \in Requests, reply(r) PROVE Refines
    BY <2>1, AnswersRefine
  <2>2. ASSUME NEW r \in Requests, suspend(r) \/ send_request(r) PROVE Refines
    BY <2>2, TasksRefine DEF Outcomes
  <2>3. ASSUME NEW r \in Requests, NEW outcome \in Outcomes, finish(r, outcome) PROVE Refines
    BY <2>3, TasksRefine
  <2>4. CASE shutdown
    BY <2>4, TasksRefine, JsonRpcAssumption DEF Outcomes
  <2>5. CASE cancel_all_received_request
    BY <2>5, WakingRefines
  <2>6. ASSUME NEW outcome \in Outcomes, finish_shutdown(outcome) PROVE Refines
    BY <2>6, TasksRefine, StopsRefine, JsonRpcAssumption
  <2>. QED BY <1>5, <2>1, <2>2, <2>3, <2>4, <2>5, <2>6 DEF Handler
<1>6. ASSUME NEW r \in Requests, resume(r) PROVE Refines
  BY <1>6, WakingRefines
<1>7. CASE UNCHANGED vars
  <2>. USE <1>7 DEF vars, tables, server, tasks, client
  <2>1. AnswersInv' /\ SentInv' /\ StopInv'
    BY DEF RInv, AnswersInv, SentInv, StopInv, Revoked
  <2>2. UNCHANGED Lifecycle!vars
    <3>1. \A r \in Requests : Status(r)' = Status(r)
      BY DEF Status
    <3>. QED BY <3>1 DEF Lifecycle!vars
  <2>. QED BY <2>1, <2>2 DEF Refines
<1>. QED BY <1>1, <1>2, <1>3, <1>4, <1>5, <1>6, <1>7 DEF Next, Loop

(* However the server's tasks interleave and are cancelled, a client sees  *)
(* what RequestLifecycle promises: one answer to a request, none only for  *)
(* a request that was revoked, and no end of the server before it has      *)
(* answered the request to shut down, unless it was told to exit.          *)
THEOREM ImplementsLifecycle == Spec => KeepsLifecycle
<1>1. Init => RInv /\ Lifecycle!Init
  BY CallersInit, RefineInit DEF RInv
<1>2. RInv /\ [Next]_vars => RInv' /\ [Lifecycle!Next]_(Lifecycle!vars)
  BY CallersNext, RefineNext DEF RInv, Refines
<1>. QED BY <1>1, <1>2, PTL DEF Spec, KeepsLifecycle, Lifecycle!Spec

-----------------------------------------------------------------------------
(* Framing.                                                                *)


frTypeOK ==
  /\ message_buf \in Seq(Token) /\ data \in Seq(Token) /\ stream \in Seq(Token)
  /\ handled \in Seq(Bodies) /\ written \in Seq(Bodies)

(* What is on its way: the first token of it is the next to be handled.    *)
Arrived == message_buf \o data
OnItsWay == Arrived \o stream

HeaderLen(field) == IF field THEN 5 ELSE 3

(* The message of a body begins behind position lo of s.                   *)
MessageAt(s, lo, body, field) ==
  /\ s[lo + 1] = [kind |-> "length", n |-> Len(body)]
  /\ s[lo + 2] = Eol
  /\ field => s[lo + 3] = [kind |-> "field", n |-> 0] /\ s[lo + 4] = Eol /\ s[lo + 5] = Eol
  /\ ~field => s[lo + 3] = Eol
  /\ \A i \in 1 .. Len(body) : s[lo + HeaderLen(field) + i] = body[i]

(* What is on its way is cut at b into the messages that are not handled:  *)
(* message j ends at b[j], and has another field if f[j].                  *)
Unhandled == Len(handled) + 1 .. Len(written)
CutBy(b, f) ==
  /\ b[Len(handled)] = 0 /\ b[Len(written)] = Len(OnItsWay)
  /\ \A i, j \in Unhandled : i <= j => b[i] <= b[j]
  /\ \A j \in Unhandled :
       /\ b[j] = b[j - 1] + HeaderLen(f[j]) + Len(written[j])
       /\ MessageAt(OnItsWay, b[j - 1], written[j], f[j])
IsCut == \E b \in [0 .. Len(written) -> Nat], f \in [1 .. Len(written) -> BOOLEAN] : CutBy(b, f)

(* Only the first of the lengths begins a line of which nothing comes      *)
(* before: a later one follows the last byte of a body.                    *)
LengthsFollowBodies(s) ==
  /\ \A p \in 1 .. Len(s) : s[p].kind = "length" => p = 1 \/ s[p - 1].kind = "byte"
  /\ s # <<>> => s[Len(s)].kind = "byte"

HandledIsPrefix ==
  /\ Len(handled) <= Len(written)
  /\ \A i \in 1 .. Len(handled) : handled[i] = written[i]

(* Between two chunks no whole message is kept in the buffer.              *)
NothingIsKept == data = <<>> => ~complete(message_buf)

FInv == frTypeOK /\ IsCut /\ LengthsFollowBodies(OnItsWay) /\ HandledIsPrefix /\ NothingIsKept

-----------------------------------------------------------------------------
(* The form of a message                                                   *)

LEMMA BodyType ==
  ASSUME NEW body \in Bodies
  PROVE  /\ body \in Seq(Token) /\ Len(body) \in Nat /\ Len(body) >= 1
         /\ \A i \in 1 .. Len(body) : body[i] \in Token /\ body[i].kind = "byte"
<1>1. body \in Seq(Token) /\ body # <<>> /\ \A i \in DOMAIN body : body[i].kind = "byte"
  BY FramingAssumption
<1>2. Len(body) \in Nat /\ DOMAIN body = 1 .. Len(body)
  BY <1>1, LenProperties
<1>3. Len(body) >= 1
  BY <1>1, <1>2, EmptySeq
<1>4. \A i \in 1 .. Len(body) : body[i] \in Token
  BY <1>1, ElementOfSeq
<1>. QED BY <1>1, <1>2, <1>3, <1>4

LEMMA TokenTypes ==
  /\ Eol \in Token /\ Eol.kind = "eol"
  /\ [kind |-> "field", n |-> 0] \in Token
  /\ \A k \in Nat : [kind |-> "length", n |-> k] \in Token /\ [kind |-> "length", n |-> k] # Eol
  /\ [kind |-> "field", n |-> 0] # Eol
BY DEF Token, Eol

(* The header of a message, without and with another field.                *)
Header(body, field) ==
  << [kind |-> "length", n |-> Len(body)], Eol>>
    \o (IF field THEN << [kind |-> "field", n |-> 0], Eol>> ELSE <<>>) \o <<Eol>>

LEMMA HeaderForm ==
  ASSUME NEW body \in Bodies, NEW field \in BOOLEAN
  PROVE  /\ Header(body, field) \in Seq(Token)
         /\ Len(Header(body, field)) = HeaderLen(field)
         /\ Header(body, field)[1] = [kind |-> "length", n |-> Len(body)]
         /\ Header(body, field)[2] = Eol
         /\ field => /\ Header(body, field)[3] = [kind |-> "field", n |-> 0]
                     /\ Header(body, field)[4] = Eol /\ Header(body, field)[5] = Eol
         /\ ~field => Header(body, field)[3] = Eol
<1>. DEFINE len == [kind |-> "length", n |-> Len(body)]
            fld == [kind |-> "field", n |-> 0]
<1>1. len \in Token /\ fld \in Token /\ Eol \in Token
  BY BodyType, TokenTypes
<1>. HIDE DEF len, fld
<1>2. CASE field
  <2>1. Header(body, field) = <<len, Eol>> \o <<fld, Eol>> \o <<Eol>>
    BY <1>2 DEF Header, len, fld
  <2>2. /\ <<len, Eol>> \in Seq(Token) /\ <<fld, Eol>> \in Seq(Token) /\ <<Eol>> \in Seq(Token)
        /\ Len(<<len, Eol>>) = 2 /\ Len(<<fld, Eol>>) = 2 /\ Len(<<Eol>>) = 1
    BY <1>1
  <2>3. PICK s \in Seq(Token) : s = <<len, Eol>> \o <<fld, Eol>>
    BY <2>2, ConcatProperties
  <2>4. Len(s) = 4 /\ s[1] = len /\ s[2] = Eol /\ s[3] = fld /\ s[4] = Eol
    BY <2>2, <2>3, ConcatProperties
  <2>5. PICK t \in Seq(Token) : t = s \o <<Eol>>
    BY <2>2, ConcatProperties
  <2>6. /\ Len(s \o <<Eol>>) = Len(s) + Len(<<Eol>>)
        /\ \A i \in 1 .. Len(s) + Len(<<Eol>>) :
             (s \o <<Eol>>)[i] = IF i <= Len(s) THEN s[i] ELSE <<Eol>>[i - Len(s)]
    BY <2>2, ConcatProperties
  <2>7. t[1] = len /\ t[2] = Eol /\ t[3] = fld /\ t[4] = Eol /\ t[5] = Eol /\ Len(t) = 5
    BY <2>2, <2>4, <2>5, <2>6
  <2>. QED BY <1>2, <2>1, <2>3, <2>5, <2>6, <2>7 DEF HeaderLen, len, fld
<1>3. CASE ~field
  <2>1. Header(body, field) = <<len, Eol>> \o <<>> \o <<Eol>>
    BY <1>3 DEF Header, len, fld
  <2>2. /\ <<len, Eol>> \in Seq(Token) /\ <<Eol>> \in Seq(Token)
        /\ Len(<<len, Eol>>) = 2 /\ Len(<<Eol>>) = 1
    BY <1>1
  <2>3. Header(body, field) = <<len, Eol>> \o <<Eol>>
    BY <2>1, <2>2, ConcatEmptySeq
  <2>4. PICK t \in Seq(Token) : t = <<len, Eol>> \o <<Eol>>
    BY <2>2, ConcatProperties
  <2>5. Len(t) = 3 /\ t[1] = len /\ t[2] = Eol /\ t[3] = Eol
    BY <2>2, <2>4, ConcatProperties
  <2>. QED BY <1>3, <2>3, <2>4, <2>5 DEF HeaderLen, len, fld
<1>. QED BY <1>2, <1>3

LEMMA FramedForm ==
  ASSUME NEW body \in Bodies, NEW field \in BOOLEAN
  PROVE  /\ Framed(body, field) \in Seq(Token)
         /\ Len(Framed(body, field)) = HeaderLen(field) + Len(body)
         /\ MessageAt(Framed(body, field), 0, body, field)
         /\ LengthsFollowBodies(Framed(body, field))
<1>. DEFINE h == Header(body, field)
            m == Framed(body, field)
<1>1. /\ h \in Seq(Token) /\ Len(h) = HeaderLen(field)
      /\ h[1] = [kind |-> "length", n |-> Len(body)] /\ h[2] = Eol
      /\ field => h[3] = [kind |-> "field", n |-> 0] /\ h[4] = Eol /\ h[5] = Eol
      /\ ~field => h[3] = Eol
  BY HeaderForm
<1>2. m = h \o body
  BY DEF Framed, Header
<1>3. /\ body \in Seq(Token) /\ Len(body) \in Nat /\ Len(body) >= 1
      /\ \A i \in 1 .. Len(body) : body[i] \in Token /\ body[i].kind = "byte"
  BY BodyType
<1>. HIDE DEF h, m
<1>4. /\ m \in Seq(Token) /\ Len(m) = Len(h) + Len(body)
      /\ \A i \in 1 .. Len(h) + Len(body) : m[i] = IF i <= Len(h) THEN h[i] ELSE body[i - Len(h)]
  BY <1>1, <1>2, <1>3, ConcatProperties
<1>5. HeaderLen(field) \in {3, 5} /\ (field => HeaderLen(field) = 5) /\ (~field => HeaderLen(field) = 3)
  BY DEF HeaderLen
<1>6. \A i \in 1 .. HeaderLen(field) : m[i] = h[i]
  <2>1. ASSUME NEW i \in 1 .. HeaderLen(field) PROVE i <= Len(h) /\ i \in 1 .. Len(h) + Len(body)
    BY <1>1, <1>3, <1>5
  <2>. QED BY <1>4, <2>1
<1>7. \A i \in 1 .. Len(body) : m[HeaderLen(field) + i] = body[i]
  <2>1. ASSUME NEW i \in 1 .. Len(body)
        PROVE  /\ HeaderLen(field) + i \in 1 .. Len(h) + Len(body) /\ ~(HeaderLen(field) + i <= Len(h))
               /\ (HeaderLen(field) + i) - Len(h) = i
    BY <1>1, <1>3, <1>5
  <2>. QED BY <1>4, <2>1
<1>8. MessageAt(m, 0, body, field)
  <2>1. m[1] = h[1] /\ m[2] = h[2] /\ m[3] = h[3]
    BY <1>5, <1>6
  <2>2. ASSUME field PROVE m[4] = h[4] /\ m[5] = h[5]
    <3>1. 4 \in 1 .. HeaderLen(field) /\ 5 \in 1 .. HeaderLen(field)
      BY <2>2 DEF HeaderLen
    <3>. QED BY <1>6, <3>1
  <2>3. \A i \in 1 .. Len(body) : m[0 + HeaderLen(field) + i] = body[i]
    BY <1>7, <1>5
  <2>. QED BY <1>1, <2>1, <2>2, <2>3 DEF MessageAt
<1>9. LengthsFollowBodies(m)
  <2>1. ASSUME NEW p \in 1 .. Len(m), m[p].kind = "length", p # 1 PROVE FALSE
    <3>1. CASE p \in 1 .. HeaderLen(field)
      <4>1. p \in {2, 3, 4, 5} /\ (~field => p \in {2, 3})
        BY <3>1, <1>5, <2>1
      <4>2. m[p] = Eol \/ m[p] = [kind |-> "field", n |-> 0]
        BY <4>1, <1>1, <1>6, <3>1
      <4>. QED BY <4>2, <2>1 DEF Eol
    <3>2. CASE p \notin 1 .. HeaderLen(field)
      <4>1. p - HeaderLen(field) \in 1 .. Len(body) /\ m[p] = body[p - HeaderLen(field)]
        BY <3>2, <1>1, <1>3, <1>4, <1>5
      <4>. QED BY <4>1, <1>3, <2>1
    <3>. QED BY <3>1, <3>2
  <2>2. m[Len(m)] = body[Len(body)]
    BY <1>1, <1>3, <1>4, <1>5
  <2>3. Len(body) \in 1 .. Len(body)
    BY <1>3
  <2>. QED BY <1>3, <2>1, <2>2, <2>3 DEF LengthsFollowBodies
<1>. QED BY <1>1, <1>4, <1>8, <1>9 DEF m

-----------------------------------------------------------------------------
(* What MESSAGE_PATTERN finds in a buffer that is a beginning of s         *)

Begins(buf, s) ==
  buf \in Seq(Token) /\ Len(buf) <= Len(s) /\ \A i \in 1 .. Len(buf) : buf[i] = s[i]

LEMMA OnlyFirstLength ==
  ASSUME NEW s \in Seq(Token), LengthsFollowBodies(s), NEW buf, Begins(buf, s)
  PROVE  Lengths(buf) \subseteq {1}
<1>1. DOMAIN buf = 1 .. Len(buf) /\ Len(buf) \in Nat /\ Len(s) \in Nat /\ Len(buf) <= Len(s)
  BY LenProperties DEF Begins
<1>2. SUFFICES ASSUME NEW p \in DOMAIN buf, buf[p].kind = "length", p # 1, buf[p - 1] = Eol
               PROVE  FALSE
  BY DEF Lengths
<1>3. p \in 1 .. Len(buf) /\ p \in 1 .. Len(s) /\ p - 1 \in 1 .. Len(buf)
  BY <1>1, <1>2
<1>4. s[p].kind = "length" /\ s[p - 1] = Eol
  BY <1>2, <1>3 DEF Begins
<1>5. s[p - 1].kind = "byte"
  BY <1>2, <1>3, <1>4 DEF LengthsFollowBodies
<1>. QED BY <1>4, <1>5, TokenTypes

LEMMA InRange ==
  ASSUME NEW lo \in Nat, NEW h \in Nat, NEW l \in Nat, NEW top \in Nat, lo + h + l <= top
  PROVE  \A i \in 1 .. h + l : lo + i \in 1 .. top
OBVIOUS

LEMMA SmallestIs ==
  ASSUME NEW S \in SUBSET Int, NEW x \in S, \A y \in S : x <= y
  PROVE  Min(S) = x
<1>1. Min(S) \in S /\ \A y \in S : Min(S) <= y
  BY DEF Min
<1>2. Min(S) \in Int /\ x \in Int /\ Min(S) <= x /\ x <= Min(S)
  BY <1>1
<1>. QED BY <1>2

(* The header is found as soon as it is there, with its end.               *)
LEMMA HeaderFound ==
  ASSUME NEW s \in Seq(Token), LengthsFollowBodies(s), NEW buf, Begins(buf, s),
         NEW body \in Bodies, NEW field \in BOOLEAN, MessageAt(s, 0, body, field)
  PROVE  /\ found(buf) <=> Len(buf) >= HeaderLen(field)
         /\ found(buf) => /\ length(buf) = Len(body)
                          /\ rest(buf) = SubSeq(buf, HeaderLen(field) + 1, Len(buf))
<1>1. DOMAIN buf = 1 .. Len(buf) /\ Len(buf) \in Nat /\ Len(s) \in Nat /\ Len(buf) <= Len(s)
  BY LenProperties DEF Begins
<1>2. HeaderLen(field) \in {3, 5}
  BY DEF HeaderLen
<1>3. \A i \in 1 .. Len(buf) : buf[i] = s[i]
  BY DEF Begins
<1>4. s[1] = [kind |-> "length", n |-> Len(body)] /\ s[2] = Eol
  BY DEF MessageAt
<1>5. \A q \in EmptyLines(buf, 1) : q >= HeaderLen(field)
  <2>. SUFFICES ASSUME NEW q \in 3 .. Len(buf), buf[q] = Eol, buf[q - 1] = Eol
                PROVE  q >= HeaderLen(field)
    BY DEF EmptyLines
  <2>1. s[q] = Eol /\ s[q - 1] = Eol
    BY <1>1, <1>3
  <2>2. CASE field
    <3>1. s[3] # Eol
      BY <2>2, TokenTypes DEF MessageAt
    <3>2. q # 3 /\ q # 4
      BY <2>1, <3>1
    <3>. QED BY <3>2, <2>2 DEF HeaderLen
  <2>3. CASE ~field
    BY <2>3 DEF HeaderLen
  <2>. QED BY <2>2, <2>3
<1>6. Len(buf) >= HeaderLen(field) => HeaderLen(field) \in EmptyLines(buf, 1)
  <2>1. s[HeaderLen(field)] = Eol /\ s[HeaderLen(field) - 1] = Eol
    <3>1. CASE field
      BY <3>1 DEF MessageAt, HeaderLen
    <3>2. CASE ~field
      BY <3>2 DEF MessageAt, HeaderLen
    <3>. QED BY <3>1, <3>2
  <2>. QED BY <1>1, <1>2, <1>3, <2>1 DEF EmptyLines
<1>7. Lengths(buf) \subseteq {1}
  BY OnlyFirstLength
<1>8. EmptyLines(buf, 1) \subseteq Int /\ \A q \in EmptyLines(buf, 1) : q <= Len(buf)
  BY <1>1 DEF EmptyLines
<1>9. found(buf) => Len(buf) >= HeaderLen(field) /\ Lengths(buf) = {1}
  <2>. SUFFICES ASSUME found(buf) PROVE Len(buf) >= HeaderLen(field) /\ Lengths(buf) = {1}
    OBVIOUS
  <2>1. Lengths(buf) = {1}
    BY <1>7 DEF found
  <2>2. PICK q \in EmptyLines(buf, 1) : TRUE
    BY <2>1 DEF Lengths
  <2>3. q >= HeaderLen(field) /\ q <= Len(buf) /\ q \in Int
    BY <1>5, <1>8, <2>2
  <2>. QED BY <1>1, <1>2, <2>1, <2>3
<1>10. Len(buf) >= HeaderLen(field) => found(buf)
  <2>. SUFFICES ASSUME Len(buf) >= HeaderLen(field) PROVE 1 \in Lengths(buf)
    BY DEF found
  <2>1. 1 \in DOMAIN buf /\ 1 < Len(buf) /\ buf[1] = s[1] /\ buf[1 + 1] = s[2]
    BY <1>1, <1>2, <1>3
  <2>. QED BY <1>4, <1>6, <2>1 DEF Lengths
<1>11. ASSUME found(buf)
       PROVE  /\ length(buf) = Len(body)
              /\ rest(buf) = SubSeq(buf, HeaderLen(field) + 1, Len(buf))
  <2>1. Max(Lengths(buf)) = 1
    <3>1. Lengths(buf) = {1}
      BY <1>9, <1>11
    <3>2. Max({1}) = 1
      BY DEF Max
    <3>. QED BY <3>1, <3>2
  <2>2. Min(EmptyLines(buf, 1)) = HeaderLen(field)
    BY <1>2, <1>5, <1>6, <1>8, <1>9, <1>11, SmallestIs
  <2>3. buf[1] = s[1]
    BY <1>1, <1>2, <1>3, <1>9, <1>11
  <2>4. length(buf) = Len(body)
    BY <1>4, <2>1, <2>3 DEF length
  <2>5. rest(buf) = SubSeq(buf, HeaderLen(field) + 1, Len(buf))
    BY <2>1, <2>2, Zenon DEF rest
  <2>. QED BY <2>4, <2>5
<1>. QED BY <1>9, <1>10, <1>11

LEMMA CompleteFound ==
  ASSUME NEW s \in Seq(Token), LengthsFollowBodies(s), NEW buf, Begins(buf, s),
         NEW body \in Bodies, NEW field \in BOOLEAN, MessageAt(s, 0, body, field)
  PROVE  /\ complete(buf) <=> Len(buf) >= HeaderLen(field) + Len(body)
         /\ complete(buf) =>
              /\ SubSeq(rest(buf), 1, length(buf)) = body
              /\ DataAfter(buf) \in Seq(Token)
              /\ Len(DataAfter(buf)) = Len(buf) - (HeaderLen(field) + Len(body))
              /\ \A i \in 1 .. Len(DataAfter(buf)) :
                    DataAfter(buf)[i] = buf[HeaderLen(field) + Len(body) + i]
<1>. DEFINE h == HeaderLen(field)
            r == SubSeq(buf, h + 1, Len(buf))
<1>1. h \in {3, 5}
  BY DEF HeaderLen
<1>2. Len(buf) \in Nat /\ buf \in Seq(Token) /\ \A i \in 1 .. Len(buf) : buf[i] \in Token
  BY LenProperties, ElementOfSeq DEF Begins
<1>3. body \in Seq(Token) /\ Len(body) \in Nat /\ Len(body) >= 1
  BY BodyType
<1>4. /\ found(buf) <=> Len(buf) >= h
      /\ found(buf) => length(buf) = Len(body) /\ rest(buf) = r
  BY HeaderFound
<1>. HIDE DEF h
<1>5. ASSUME Len(buf) >= h
      PROVE  /\ r \in Seq(Token) /\ Len(r) = Len(buf) - h
             /\ \A i \in 1 .. Len(buf) - h : r[i] = buf[h + i]
  <2>1. h + 1 \in Int /\ \A i \in h + 1 .. Len(buf) : buf[i] \in Token
    BY <1>1, <1>2
  <2>2. /\ r \in Seq(Token) /\ Len(r) = IF h + 1 <= Len(buf) THEN Len(buf) - (h + 1) + 1 ELSE 0
        /\ \A i \in 1 .. Len(buf) - (h + 1) + 1 : r[i] = buf[h + 1 + i - 1]
    BY <1>2, <2>1, SubSeqProperties
  <2>3. Len(r) = Len(buf) - h /\ Len(buf) - (h + 1) + 1 = Len(buf) - h
    BY <1>1, <1>2, <1>5, <2>2
  <2>4. \A i \in 1 .. Len(buf) - h : h + 1 + i - 1 = h + i
    BY <1>1, <1>2
  <2>. QED BY <2>2, <2>3, <2>4
<1>. HIDE DEF r
<1>6. complete(buf) <=> Len(buf) >= h + Len(body)
  BY <1>1, <1>2, <1>3, <1>4, <1>5 DEF complete
<1>7. ASSUME complete(buf)
      PROVE  /\ SubSeq(rest(buf), 1, length(buf)) = body
             /\ DataAfter(buf) \in Seq(Token)
             /\ Len(DataAfter(buf)) = Len(buf) - (h + Len(body))
             /\ \A i \in 1 .. Len(DataAfter(buf)) : DataAfter(buf)[i] = buf[h + Len(body) + i]
  <2>1. Len(buf) >= h + Len(body) /\ found(buf) /\ Len(buf) >= h
    BY <1>1, <1>2, <1>3, <1>6, <1>7 DEF complete
  <2>2. length(buf) = Len(body) /\ rest(buf) = r
    BY <1>4, <2>1
  <2>3. /\ r \in Seq(Token) /\ Len(r) = Len(buf) - h
        /\ \A i \in 1 .. Len(buf) - h : r[i] = buf[h + i]
    BY <1>5, <2>1
  <2>4. \A i \in 1 .. Len(r) : r[i] \in Token
    BY <2>3, ElementOfSeq
  <2>5. /\ SubSeq(r, 1, Len(body)) \in Seq(Token)
        /\ Len(SubSeq(r, 1, Len(body))) = Len(body)
        /\ \A i \in 1 .. Len(body) : SubSeq(r, 1, Len(body))[i] = r[i]
    <3>1. \A i \in 1 .. Len(body) : r[i] \in Token
      BY <1>1, <1>2, <1>3, <2>1, <2>3, <2>4
    <3>2. /\ SubSeq(r, 1, Len(body)) \in Seq(Token)
          /\ Len(SubSeq(r, 1, Len(body))) = IF 1 <= Len(body) THEN Len(body) - 1 + 1 ELSE 0
          /\ \A i \in 1 .. Len(body) - 1 + 1 : SubSeq(r, 1, Len(body))[i] = r[1 + i - 1]
      BY <1>3, <3>1, SubSeqProperties
    <3>3. Len(body) - 1 + 1 = Len(body) /\ \A i \in 1 .. Len(body) : 1 + i - 1 = i
      BY <1>3
    <3>. QED BY <1>3, <3>2, <3>3
  <2>6. \A i \in 1 .. Len(body) : r[i] = body[i]
    <3>1. \A i \in 1 .. Len(body) : h + i \in 1 .. Len(buf) /\ i \in 1 .. Len(buf) - h
      BY <1>1, <1>2, <1>3, <2>1
    <3>2. \A i \in 1 .. Len(body) : s[0 + h + i] = body[i] /\ 0 + h + i = h + i
      BY <1>1, <1>3 DEF MessageAt, h
    <3>3. \A i \in 1 .. Len(buf) : buf[i] = s[i]
      BY DEF Begins
    <3>. QED BY <2>3, <3>1, <3>2, <3>3
  <2>7. SubSeq(r, 1, Len(body)) = body
    BY <1>3, <2>5, <2>6, SeqEqual
  <2>8. DataAfter(buf) = SubSeq(r, Len(body) + 1, Len(r))
    BY <2>2 DEF DataAfter
  <2>9. /\ DataAfter(buf) \in Seq(Token)
        /\ Len(DataAfter(buf)) = Len(r) - Len(body)
        /\ \A i \in 1 .. Len(r) - Len(body) : DataAfter(buf)[i] = r[Len(body) + i]
    <3>1. Len(r) \in Nat /\ Len(r) >= Len(body) /\ Len(body) + 1 \in Int
      BY <1>1, <1>2, <1>3, <2>1, <2>3
    <3>2. \A i \in Len(body) + 1 .. Len(r) : r[i] \in Token
      BY <1>3, <2>4, <3>1
    <3>3. /\ DataAfter(buf) \in Seq(Token)
          /\ Len(DataAfter(buf)) = IF Len(body) + 1 <= Len(r) THEN Len(r) - (Len(body) + 1) + 1 ELSE 0
          /\ \A i \in 1 .. Len(r) - (Len(body) + 1) + 1 :
               DataAfter(buf)[i] = r[Len(body) + 1 + i - 1]
      BY <2>8, <3>1, <3>2, SubSeqProperties
    <3>4. /\ Len(r) - (Len(body) + 1) + 1 = Len(r) - Len(body)
          /\ \A i \in 1 .. Len(r) - Len(body) : Len(body) + 1 + i - 1 = Len(body) + i
      BY <1>3, <3>1
    <3>5. Len(DataAfter(buf)) = Len(r) - Len(body)
      BY <1>3, <3>1, <3>3
    <3>. QED BY <3>3, <3>4, <3>5
  <2>10. Len(DataAfter(buf)) = Len(buf) - (h + Len(body))
    BY <1>1, <1>2, <1>3, <2>3, <2>9
  <2>11. \A i \in 1 .. Len(r) - Len(body) : r[Len(body) + i] = buf[h + Len(body) + i]
    <3>1. \A i \in 1 .. Len(r) - Len(body) :
            Len(body) + i \in 1 .. Len(buf) - h /\ h + (Len(body) + i) = h + Len(body) + i
      BY <1>1, <1>2, <1>3, <2>1, <2>3
    <3>. QED BY <2>3, <3>1
  <2>. QED BY <2>2, <2>7, <2>9, <2>10, <2>11
<1>. QED BY <1>6, <1>7 DEF h

-----------------------------------------------------------------------------
(* What is on its way grows at its end and shrinks at its beginning        *)

LEMMA ConcatForm ==
  ASSUME NEW s \in Seq(Token), NEW t \in Seq(Token)
  PROVE  /\ s \o t \in Seq(Token) /\ Len(s) \in Nat /\ Len(t) \in Nat
         /\ Len(s \o t) = Len(s) + Len(t)
         /\ \A i \in 1 .. Len(s) : (s \o t)[i] = s[i]
         /\ \A i \in 1 .. Len(t) : (s \o t)[Len(s) + i] = t[i]
<1>1. Len(s) \in Nat /\ Len(t) \in Nat
  OBVIOUS
<1>2. /\ s \o t \in Seq(Token)
      /\ Len(s \o t) = Len(s) + Len(t)
      /\ \A i \in 1 .. Len(s) + Len(t) : (s \o t)[i] = IF i <= Len(s) THEN s[i] ELSE t[i - Len(s)]
  BY ConcatProperties
<1>3. \A i \in 1 .. Len(s) : i \in 1 .. Len(s) + Len(t) /\ i <= Len(s)
  BY <1>1
<1>4. \A i \in 1 .. Len(t) : /\ Len(s) + i \in 1 .. Len(s) + Len(t)
                             /\ ~(Len(s) + i <= Len(s)) /\ (Len(s) + i) - Len(s) = i
  BY <1>1
<1>5. \A i \in 1 .. Len(s) : (s \o t)[i] = s[i]
  BY <1>2, <1>3
<1>6. \A i \in 1 .. Len(t) : (s \o t)[Len(s) + i] = t[i]
  BY <1>2, <1>4
<1>. QED BY <1>1, <1>2, <1>5, <1>6

LEMMA LengthsOfConcat ==
  ASSUME NEW s \in Seq(Token), NEW t \in Seq(Token), LengthsFollowBodies(s), LengthsFollowBodies(t)
  PROVE  LengthsFollowBodies(s \o t)
<1>. DEFINE u == s \o t
<1>1. /\ u \in Seq(Token) /\ Len(s) \in Nat /\ Len(t) \in Nat
      /\ Len(u) = Len(s) + Len(t)
      /\ \A i \in 1 .. Len(s) : u[i] = s[i]
      /\ \A i \in 1 .. Len(t) : u[Len(s) + i] = t[i]
  BY ConcatForm
<1>. HIDE DEF u
<1>2. s # <<>> => Len(s) >= 1 /\ s[Len(s)].kind = "byte"
  BY <1>1, EmptySeq DEF LengthsFollowBodies
<1>3. t # <<>> => Len(t) >= 1 /\ t[Len(t)].kind = "byte"
  BY <1>1, EmptySeq DEF LengthsFollowBodies
<1>4. ASSUME NEW p \in 1 .. Len(u), u[p].kind = "length", p # 1 PROVE u[p - 1].kind = "byte"
  <2>1. CASE p \in 1 .. Len(s)
    <3>1. p - 1 \in 1 .. Len(s)
      BY <1>1, <1>4, <2>1
    <3>2. u[p] = s[p] /\ u[p - 1] = s[p - 1]
      BY <1>1, <2>1, <3>1
    <3>. QED BY <1>4, <2>1, <3>2 DEF LengthsFollowBodies
  <2>2. CASE p = Len(s) + 1
    <3>1. p - 1 = Len(s) /\ Len(s) \in 1 .. Len(s) /\ s # <<>>
      BY <1>1, <1>4, <2>2
    <3>. QED BY <1>1, <1>2, <3>1
  <2>3. CASE p > Len(s) + 1
    <3>1. /\ p - Len(s) \in 1 .. Len(t) /\ p - Len(s) # 1 /\ (p - Len(s)) - 1 \in 1 .. Len(t)
          /\ Len(s) + (p - Len(s)) = p /\ Len(s) + ((p - Len(s)) - 1) = p - 1
      BY <1>1, <2>3
    <3>2. u[p] = t[p - Len(s)] /\ u[p - 1] = t[(p - Len(s)) - 1]
      BY <1>1, <3>1
    <3>. QED BY <1>4, <3>1, <3>2 DEF LengthsFollowBodies
  <2>. QED BY <1>1, <2>1, <2>2, <2>3
<1>5. ASSUME u # <<>> PROVE u[Len(u)].kind = "byte"
  <2>1. CASE t = <<>>
    <3>1. u = s
      BY <2>1, ConcatEmptySeq DEF u
    <3>. QED BY <1>2, <1>5, <3>1
  <2>2. CASE t # <<>>
    <3>1. Len(t) \in 1 .. Len(t) /\ u[Len(s) + Len(t)] = t[Len(t)]
      BY <1>1, <1>3, <2>2
    <3>. QED BY <1>1, <1>3, <2>2, <3>1
  <2>. QED BY <2>1, <2>2
<1>. QED BY <1>4, <1>5 DEF LengthsFollowBodies, u

(* u is s without its first n tokens.                                      *)
IsRest(u, s, n) ==
  /\ u \in Seq(Token) /\ s \in Seq(Token) /\ n \in Nat
  /\ Len(u) + n = Len(s) /\ \A i \in 1 .. Len(u) : u[i] = s[n + i]

LEMMA LengthsOfRest ==
  ASSUME NEW s, NEW u, NEW n, IsRest(u, s, n), LengthsFollowBodies(s)
  PROVE  LengthsFollowBodies(u)
<1>1. /\ Len(u) \in Nat /\ Len(s) \in Nat /\ n \in Nat /\ Len(u) + n = Len(s)
      /\ \A i \in 1 .. Len(u) : u[i] = s[n + i]
  BY LenProperties DEF IsRest
<1>2. ASSUME NEW p \in 1 .. Len(u), u[p].kind = "length", p # 1 PROVE u[p - 1].kind = "byte"
  <2>1. p - 1 \in 1 .. Len(u) /\ n + p \in 1 .. Len(s) /\ n + p # 1 /\ (n + p) - 1 = n + (p - 1)
    BY <1>1, <1>2
  <2>2. u[p] = s[n + p] /\ u[p - 1] = s[(n + p) - 1]
    BY <1>1, <2>1
  <2>. QED BY <1>2, <2>1, <2>2 DEF LengthsFollowBodies
<1>3. ASSUME u # <<>> PROVE u[Len(u)].kind = "byte"
  <2>1. Len(u) >= 1
    BY <1>3, EmptySeq DEF IsRest
  <2>2. Len(u) \in 1 .. Len(u) /\ n + Len(u) = Len(s) /\ s # <<>>
    BY <1>1, <2>1
  <2>3. u[Len(u)] = s[Len(s)]
    BY <1>1, <2>2
  <2>. QED BY <2>2, <2>3 DEF LengthsFollowBodies
<1>. QED BY <1>2, <1>3 DEF LengthsFollowBodies

(* n tokens of t behind at are those of s behind lo.                       *)
SameTokens(t, at, s, lo, n) == \A i \in 1 .. n : t[at + i] = s[lo + i]

LEMMA MessageMoves ==
  ASSUME NEW s, NEW t, NEW lo \in Nat, NEW at \in Nat, NEW body \in Bodies, NEW field \in BOOLEAN,
         MessageAt(s, lo, body, field),
         SameTokens(t, at, s, lo, HeaderLen(field) + Len(body))
  PROVE  MessageAt(t, at, body, field)
<1>0. \A i \in 1 .. HeaderLen(field) + Len(body) : t[at + i] = s[lo + i]
  BY DEF SameTokens
<1>1. Len(body) \in Nat
  BY BodyType
<1>2. HeaderLen(field) \in {3, 5} /\ (field => HeaderLen(field) = 5)
  BY DEF HeaderLen
<1>3. t[at + 1] = s[lo + 1] /\ t[at + 2] = s[lo + 2] /\ t[at + 3] = s[lo + 3]
  <2>1. 1 \in 1 .. HeaderLen(field) + Len(body) /\ 2 \in 1 .. HeaderLen(field) + Len(body)
        /\ 3 \in 1 .. HeaderLen(field) + Len(body)
    BY <1>1, <1>2
  <2>. QED BY <1>0, <2>1
<1>4. field => t[at + 4] = s[lo + 4] /\ t[at + 5] = s[lo + 5]
  <2>1. field => 4 \in 1 .. HeaderLen(field) + Len(body) /\ 5 \in 1 .. HeaderLen(field) + Len(body)
    BY <1>1 DEF HeaderLen
  <2>. QED BY <1>0, <2>1
<1>5. \A i \in 1 .. Len(body) : t[at + HeaderLen(field) + i] = body[i]
  <2>1. \A i \in 1 .. Len(body) : /\ HeaderLen(field) + i \in 1 .. HeaderLen(field) + Len(body)
                                  /\ at + (HeaderLen(field) + i) = at + HeaderLen(field) + i
                                  /\ lo + (HeaderLen(field) + i) = lo + HeaderLen(field) + i
    <3>1. HeaderLen(field) \in Nat
      BY <1>2
    <3>. QED BY <1>1, <3>1
  <2>2. \A i \in 1 .. Len(body) : t[at + HeaderLen(field) + i] = s[lo + HeaderLen(field) + i]
    BY <1>0, <2>1
  <2>. QED BY <2>2 DEF MessageAt
<1>. QED BY <1>3, <1>4, <1>5 DEF MessageAt

-----------------------------------------------------------------------------
(* The first message on its way                                            *)

LEMMA OnItsWayForm ==
  ASSUME frTypeOK
  PROVE  /\ Arrived \in Seq(Token) /\ OnItsWay \in Seq(Token)
         /\ Begins(Arrived, OnItsWay)
         /\ IsRest(stream, OnItsWay, Len(Arrived))
         /\ Len(written) \in Nat /\ Len(handled) \in Nat
         /\ \A j \in 1 .. Len(written) : written[j] \in Bodies
<1>1. Arrived \in Seq(Token)
  BY ConcatProperties DEF frTypeOK, Arrived
<1>2. stream \in Seq(Token)
  BY DEF frTypeOK
<1>3. /\ OnItsWay \in Seq(Token) /\ Len(Arrived) \in Nat /\ Len(stream) \in Nat
      /\ Len(OnItsWay) = Len(Arrived) + Len(stream)
      /\ \A i \in 1 .. Len(Arrived) : OnItsWay[i] = Arrived[i]
      /\ \A i \in 1 .. Len(stream) : OnItsWay[Len(Arrived) + i] = stream[i]
  BY <1>1, <1>2, ConcatForm DEF OnItsWay
<1>4. Begins(Arrived, OnItsWay)
  BY <1>1, <1>3 DEF Begins
<1>5. IsRest(stream, OnItsWay, Len(Arrived))
  BY <1>2, <1>3 DEF IsRest
<1>6. /\ Len(written) \in Nat /\ Len(handled) \in Nat
      /\ \A j \in 1 .. Len(written) : written[j] \in Bodies
  BY LenProperties, ElementOfSeq DEF frTypeOK
<1>. QED BY <1>1, <1>3, <1>4, <1>5, <1>6

LEMMA FirstMessage ==
  ASSUME FInv, NEW b \in [0 .. Len(written) -> Nat], NEW f \in [1 .. Len(written) -> BOOLEAN],
         CutBy(b, f), Len(handled) # Len(written)
  PROVE  LET j == Len(handled) + 1
             n == HeaderLen(f[j]) + Len(written[j])
         IN  /\ j \in Unhandled /\ written[j] \in Bodies /\ f[j] \in BOOLEAN
             /\ MessageAt(OnItsWay, 0, written[j], f[j])
             /\ b[j] = n /\ n <= Len(OnItsWay)
<1>. DEFINE j == Len(handled) + 1
            n == HeaderLen(f[j]) + Len(written[j])
<1>1. /\ Len(written) \in Nat /\ Len(handled) \in Nat /\ Len(handled) <= Len(written)
      /\ \A i \in 1 .. Len(written) : written[i] \in Bodies
  BY OnItsWayForm DEF FInv, HandledIsPrefix
<1>2. j \in Unhandled /\ j \in 1 .. Len(written) /\ Len(written) \in Unhandled /\ j <= Len(written)
      /\ j - 1 = Len(handled)
  BY <1>1 DEF Unhandled
<1>3. written[j] \in Bodies /\ f[j] \in BOOLEAN
  BY <1>1, <1>2
<1>4. Len(written[j]) \in Nat /\ HeaderLen(f[j]) \in Nat
  BY <1>3, BodyType DEF HeaderLen
<1>5. b[j] = b[j - 1] + HeaderLen(f[j]) + Len(written[j]) /\ MessageAt(OnItsWay, b[j - 1], written[j], f[j])
  BY <1>2 DEF CutBy
<1>6. b[j - 1] = 0
  BY <1>2 DEF CutBy
<1>7. b[j] = n /\ MessageAt(OnItsWay, 0, written[j], f[j])
  BY <1>4, <1>5, <1>6
<1>8. b[j] <= Len(OnItsWay)
  BY <1>2 DEF CutBy
<1>. QED BY <1>2, <1>3, <1>7, <1>8

LEMMA NothingToFind == ~complete(<<>>)
BY DEF complete, found, Lengths

LEMMA NoMessage ==
  ASSUME FInv, Len(handled) = Len(written)
  PROVE  OnItsWay = <<>> /\ Arrived = <<>>
<1>1. PICK b \in [0 .. Len(written) -> Nat], f \in [1 .. Len(written) -> BOOLEAN] : CutBy(b, f)
  BY DEF FInv, IsCut
<1>2. Len(OnItsWay) = 0
  BY <1>1 DEF CutBy
<1>3. OnItsWay \in Seq(Token) /\ Arrived \in Seq(Token) /\ Len(Arrived) <= Len(OnItsWay)
  BY OnItsWayForm DEF FInv, Begins
<1>4. Len(Arrived) \in Nat
  BY <1>3
<1>5. Len(Arrived) = 0
  BY <1>2, <1>3, <1>4
<1>. QED BY <1>2, <1>3, <1>5, EmptySeq

(* When everything has arrived and was looked at, nothing is left.         *)
LEMMA AllIsHandled ==
  ASSUME FInv
  PROVE  HandledInOrder
<1>1. /\ handled \in Seq(Bodies) /\ written \in Seq(Bodies)
      /\ Len(handled) \in Nat /\ Len(written) \in Nat /\ Len(handled) <= Len(written)
      /\ \A i \in 1 .. Len(handled) : handled[i] = written[i]
      /\ \A i \in 1 .. Len(written) : written[i] \in Bodies
      /\ \A i \in 1 .. Len(handled) : handled[i] \in Bodies
  BY OnItsWayForm, ElementOfSeq DEF FInv, frTypeOK, HandledIsPrefix
<1>2. IsPrefix(handled, written)
  <2>1. /\ SubSeq(handled, 1, Len(handled)) \in Seq(Bodies)
        /\ SubSeq(written, 1, Len(handled)) \in Seq(Bodies)
        /\ Len(SubSeq(handled, 1, Len(handled))) = Len(SubSeq(written, 1, Len(handled)))
        /\ \A i \in 1 .. Len(SubSeq(handled, 1, Len(handled))) :
             SubSeq(handled, 1, Len(handled))[i] = SubSeq(written, 1, Len(handled))[i]
    BY <1>1, SubSeqProperties
  <2>2. SubSeq(handled, 1, Len(handled)) = SubSeq(written, 1, Len(handled))
    BY <2>1, SeqEqual
  <2>. QED BY <1>1, <2>2 DEF IsPrefix
<1>3. ASSUME stream = <<>>, data = <<>>, Len(handled) # Len(written) PROVE FALSE
  <2>1. PICK b \in [0 .. Len(written) -> Nat], f \in [1 .. Len(written) -> BOOLEAN] : CutBy(b, f)
    BY DEF FInv, IsCut
  <2>. DEFINE j == Len(handled) + 1
  <2>2. /\ written[j] \in Bodies /\ f[j] \in BOOLEAN
        /\ MessageAt(OnItsWay, 0, written[j], f[j])
        /\ HeaderLen(f[j]) + Len(written[j]) <= Len(OnItsWay)
    BY <1>3, <2>1, FirstMessage
  <2>3. message_buf = Arrived /\ OnItsWay = Arrived
    BY <1>3, ConcatEmptySeq, OnItsWayForm DEF FInv, frTypeOK, Arrived, OnItsWay
  <2>4. OnItsWay \in Seq(Token) /\ LengthsFollowBodies(OnItsWay) /\ Begins(message_buf, OnItsWay)
    BY <2>3, OnItsWayForm DEF FInv
  <2>5. complete(message_buf) <=> Len(message_buf) >= HeaderLen(f[j]) + Len(written[j])
    BY <2>2, <2>4, CompleteFound
  <2>6. Len(message_buf) \in Nat /\ HeaderLen(f[j]) + Len(written[j]) \in Nat
    <3>1. Len(message_buf) \in Nat
      BY DEF FInv, frTypeOK
    <3>2. Len(written[j]) \in Nat /\ HeaderLen(f[j]) \in Nat
      BY <2>2, BodyType DEF HeaderLen
    <3>. QED BY <3>1, <3>2
  <2>7. Len(message_buf) >= HeaderLen(f[j]) + Len(written[j])
    BY <2>2, <2>3, <2>6
  <2>. QED BY <1>3, <2>5, <2>7 DEF FInv, NothingIsKept
<1>4. Len(handled) = Len(written) => handled = written
  BY <1>1, SeqEqual
<1>. QED BY <1>2, <1>3, <1>4 DEF HandledInOrder

-----------------------------------------------------------------------------
(* The steps                                                               *)

LEMMA FramingInit ==
  ASSUME frInit
  PROVE  FInv
<1>1. frTypeOK
  BY DEF frInit, frTypeOK
<1>2. OnItsWay = <<>>
  BY DEF frInit, Arrived, OnItsWay
<1>3. IsCut
  <2>. DEFINE b == [j \in 0 .. 0 |-> 0]
              f == [j \in 1 .. 0 |-> TRUE]
  <2>1. Len(written) = 0 /\ Len(handled) = 0 /\ Len(OnItsWay) = 0
    BY <1>2 DEF frInit
  <2>2. b \in [0 .. Len(written) -> Nat] /\ f \in [1 .. Len(written) -> BOOLEAN]
    BY <2>1
  <2>3. Unhandled = {}
    BY <2>1 DEF Unhandled
  <2>4. b[0] = 0
    OBVIOUS
  <2>5. CutBy(b, f)
    BY <2>1, <2>3, <2>4 DEF CutBy
  <2>. HIDE DEF b, f
  <2>. QED BY <2>2, <2>5 DEF IsCut
<1>4. LengthsFollowBodies(OnItsWay)
  BY <1>2 DEF LengthsFollowBodies
<1>5. HandledIsPrefix /\ NothingIsKept
  BY NothingToFind DEF frInit, HandledIsPrefix, NothingIsKept
<1>. QED BY <1>1, <1>3, <1>4, <1>5 DEF FInv

(* A message that is sent is one more piece.                               *)
LEMMA SendKeeps ==
  ASSUME FInv, NEW body \in Bodies, NEW field \in BOOLEAN, send(body, field)
  PROVE  FInv'
<1>. DEFINE m == Framed(body, field)
            w == Len(written)
            t == OnItsWay \o m
            n == HeaderLen(field) + Len(body)
<1>1. /\ m \in Seq(Token) /\ Len(m) = n /\ MessageAt(m, 0, body, field) /\ LengthsFollowBodies(m)
  BY FramedForm
<1>2. /\ Arrived \in Seq(Token) /\ OnItsWay \in Seq(Token) /\ w \in Nat /\ Len(handled) \in Nat
      /\ stream \in Seq(Token) /\ \A j \in 1 .. w : written[j] \in Bodies
      /\ written \in Seq(Bodies) /\ Len(handled) <= w
  BY OnItsWayForm DEF FInv, frTypeOK, HandledIsPrefix
<1>3. /\ message_buf' = message_buf /\ data' = data /\ handled' = handled
      /\ stream' = stream \o m /\ written' = Append(written, body)
  BY DEF send
<1>. HIDE DEF m
<1>4. Arrived' = Arrived /\ OnItsWay' = t
  <2>1. Arrived' = Arrived
    BY <1>3 DEF Arrived
  <2>2. OnItsWay' = Arrived \o (stream \o m)
    BY <1>3, <2>1 DEF OnItsWay
  <2>3. (Arrived \o stream) \o m = Arrived \o (stream \o m)
    <3>1. Arrived \in Seq(Token) /\ stream \in Seq(Token) /\ m \in Seq(Token)
      BY <1>1, <1>2
    <3>. QED BY <3>1, ConcatAssociative
  <2>. QED BY <2>1, <2>2, <2>3 DEF OnItsWay
<1>5. /\ t \in Seq(Token) /\ Len(OnItsWay) \in Nat /\ Len(t) = Len(OnItsWay) + Len(m)
      /\ \A i \in 1 .. Len(OnItsWay) : t[i] = OnItsWay[i]
      /\ \A i \in 1 .. Len(m) : t[Len(OnItsWay) + i] = m[i]
  BY <1>1, <1>2, ConcatForm
<1>. HIDE DEF t
<1>6. /\ written' \in Seq(Bodies) /\ Len(written') = w + 1
      /\ \A j \in 1 .. w : written'[j] = written[j]
      /\ written'[w + 1] = body
  BY <1>2, <1>3, AppendProperties
<1>7. Len(body) \in Nat /\ HeaderLen(field) \in Nat /\ n \in Nat
  BY BodyType DEF HeaderLen
<1>8. frTypeOK'
  <2>1. stream' \in Seq(Token)
    BY <1>1, <1>2, <1>3, ConcatProperties
  <2>. QED BY <1>3, <1>6, <2>1 DEF FInv, frTypeOK
<1>9. IsCut'
  <2>1. PICK b \in [0 .. w -> Nat], f \in [1 .. w -> BOOLEAN] : CutBy(b, f)
    BY DEF FInv, IsCut
  <2>2. PICK c \in [0 .. w + 1 -> Nat], g \in [1 .. w + 1 -> BOOLEAN] :
          /\ \A j \in 0 .. w : c[j] = b[j]
          /\ \A j \in 1 .. w : g[j] = f[j]
          /\ c[w + 1] = Len(t) /\ g[w + 1] = field
    <3>. DEFINE c0 == [j \in 0 .. w + 1 |-> IF j <= w THEN b[j] ELSE Len(t)]
                g0 == [j \in 1 .. w + 1 |-> IF j <= w THEN f[j] ELSE field]
    <3>1. /\ c0 \in [0 .. w + 1 -> Nat] /\ g0 \in [1 .. w + 1 -> BOOLEAN]
          /\ \A j \in 0 .. w : c0[j] = b[j]
          /\ \A j \in 1 .. w : g0[j] = f[j]
          /\ c0[w + 1] = Len(t) /\ g0[w + 1] = field
      BY <1>1, <1>2, <1>5, <1>7
    <3>. HIDE DEF c0, g0
    <3>. QED BY <3>1
  <2>3. /\ b[Len(handled)] = 0 /\ b[w] = Len(OnItsWay)
        /\ \A i, j \in Len(handled) + 1 .. w : i <= j => b[i] <= b[j]
        /\ \A j \in Len(handled) + 1 .. w :
             /\ b[j] = b[j - 1] + HeaderLen(f[j]) + Len(written[j])
             /\ MessageAt(OnItsWay, b[j - 1], written[j], f[j])
    BY <2>1 DEF CutBy, Unhandled
  <2>4. c[Len(handled')] = 0 /\ c[Len(written')] = Len(t)
    <3>1. Len(handled) \in 0 .. w
      BY <1>2
    <3>. QED BY <1>3, <1>6, <2>2, <2>3, <3>1
  <2>5. \A j \in Len(handled) + 1 .. w : b[j] \in Nat /\ b[j] <= Len(OnItsWay)
    <3>1. ASSUME NEW j \in Len(handled) + 1 .. w PROVE j \in 0 .. w /\ w \in Len(handled) + 1 .. w /\ j <= w
      BY <1>2
    <3>. QED BY <2>3, <3>1
  <2>6. ASSUME NEW i \in Len(handled) + 1 .. w + 1, NEW j \in Len(handled) + 1 .. w + 1, i <= j
        PROVE  c[i] <= c[j]
    <3>1. CASE j <= w
      <4>1. i \in Len(handled) + 1 .. w /\ j \in Len(handled) + 1 .. w /\ i \in 0 .. w /\ j \in 0 .. w
        BY <1>2, <2>6, <3>1
      <4>. QED BY <2>2, <2>3, <2>6, <4>1
    <3>2. CASE j = w + 1 /\ i <= w
      <4>1. i \in Len(handled) + 1 .. w /\ i \in 0 .. w
        BY <1>2, <3>2
      <4>2. c[i] \in Nat /\ c[i] <= Len(OnItsWay) /\ c[j] = Len(t)
        BY <2>2, <2>5, <3>2, <4>1
      <4>. QED BY <1>1, <1>5, <1>7, <4>2
    <3>3. CASE j = w + 1 /\ i = w + 1
      BY <1>1, <1>5, <1>7, <2>2, <3>3
    <3>4. j <= w \/ (j = w + 1 /\ i <= w) \/ (j = w + 1 /\ i = w + 1)
      BY <1>2, <2>6
    <3>. QED BY <3>1, <3>2, <3>3, <3>4
  <2>7. ASSUME NEW j \in Len(handled) + 1 .. w + 1
        PROVE  /\ c[j] = c[j - 1] + HeaderLen(g[j]) + Len(written'[j])
               /\ MessageAt(t, c[j - 1], written'[j], g[j])
    <3>1. CASE j <= w
      <4>1. j \in Len(handled) + 1 .. w /\ j \in 1 .. w /\ j \in 0 .. w /\ j - 1 \in 0 .. w
        BY <1>2, <3>1
      <4>2. /\ c[j] = b[j] /\ c[j - 1] = b[j - 1] /\ g[j] = f[j] /\ written'[j] = written[j]
            /\ b[j] \in Nat /\ b[j - 1] \in Nat /\ f[j] \in BOOLEAN /\ written[j] \in Bodies
        BY <1>2, <1>6, <2>2, <4>1
      <4>3. /\ b[j] = b[j - 1] + HeaderLen(f[j]) + Len(written[j])
            /\ MessageAt(OnItsWay, b[j - 1], written[j], f[j]) /\ b[j] <= Len(OnItsWay)
        BY <2>3, <2>5, <4>1
      <4>4. HeaderLen(f[j]) \in Nat /\ Len(written[j]) \in Nat
        BY <4>2, BodyType DEF HeaderLen
      <4>5. \A i \in 1 .. HeaderLen(f[j]) + Len(written[j]) : b[j - 1] + i \in 1 .. Len(OnItsWay)
        <5>1. b[j - 1] + HeaderLen(f[j]) + Len(written[j]) <= Len(OnItsWay)
          BY <4>3
        <5>. QED BY <1>5, <4>2, <4>4, <5>1, InRange
      <4>6. SameTokens(t, b[j - 1], OnItsWay, b[j - 1], HeaderLen(f[j]) + Len(written[j]))
        BY <1>5, <4>5 DEF SameTokens
      <4>7. MessageAt(t, b[j - 1], written[j], f[j])
        BY <4>2, <4>3, <4>6, MessageMoves
      <4>. QED BY <4>2, <4>3, <4>7
    <3>2. CASE j = w + 1
      <4>1. c[j - 1] = Len(OnItsWay)
        <5>1. j - 1 = w /\ w \in 0 .. w
          BY <1>2, <3>2
        <5>. QED BY <2>2, <2>3, <5>1
      <4>2. g[j] = field /\ written'[j] = body /\ c[j] = Len(t)
        BY <1>6, <2>2, <3>2
      <4>3. MessageAt(t, Len(OnItsWay), body, field)
        <5>1. SameTokens(t, Len(OnItsWay), m, 0, HeaderLen(field) + Len(body))
          BY <1>1, <1>5, <1>7 DEF SameTokens
        <5>2. 0 \in Nat /\ Len(OnItsWay) \in Nat
          BY <1>5
        <5>. QED BY <1>1, <5>1, <5>2, MessageMoves
      <4>4. Len(t) = Len(OnItsWay) + HeaderLen(field) + Len(body)
        BY <1>1, <1>5, <1>7
      <4>. QED BY <4>1, <4>2, <4>3, <4>4
    <3>. QED BY <1>2, <3>1, <3>2
  <2>8. CutBy(c, g)'
    BY <1>3, <1>4, <1>6, <2>4, <2>6, <2>7 DEF CutBy, Unhandled
  <2>. QED BY <1>6, <2>2, <2>8 DEF IsCut
<1>10. LengthsFollowBodies(OnItsWay')
  BY <1>1, <1>2, <1>4, LengthsOfConcat DEF FInv, t
<1>11. HandledIsPrefix'
  <2>1. Len(handled) <= w + 1 /\ \A i \in 1 .. Len(handled) : i \in 1 .. w
    BY <1>2
  <2>. QED BY <1>3, <1>6, <2>1 DEF FInv, HandledIsPrefix
<1>12. NothingIsKept'
  BY <1>3 DEF FInv, NothingIsKept
<1>. QED BY <1>8, <1>9, <1>10, <1>11, <1>12 DEF FInv

(* What a chunk does not change is all that matters: what is on its way.   *)
LEMMA SameOnItsWay ==
  ASSUME FInv, OnItsWay' = OnItsWay, handled' = handled, written' = written
  PROVE  IsCut' /\ LengthsFollowBodies(OnItsWay') /\ HandledIsPrefix'
<1>1. PICK b \in [0 .. Len(written) -> Nat], f \in [1 .. Len(written) -> BOOLEAN] : CutBy(b, f)
  BY DEF FInv, IsCut
<1>2. CutBy(b, f)'
  BY <1>1 DEF CutBy, Unhandled
<1>3. IsCut'
  BY <1>1, <1>2 DEF IsCut
<1>4. LengthsFollowBodies(OnItsWay') /\ HandledIsPrefix'
  BY DEF FInv, HandledIsPrefix
<1>. QED BY <1>3, <1>4

LEMMA ReceiveKeeps ==
  ASSUME FInv, NEW k \in 1 .. Len(stream), receive(k)
  PROVE  FInv'
<1>. DEFINE chunk == SubSeq(stream, 1, k)
            later == SubSeq(stream, k + 1, Len(stream))
<1>1. stream \in Seq(Token) /\ Len(stream) \in Nat /\ message_buf \in Seq(Token) /\ data = <<>>
  BY DEF FInv, frTypeOK, receive
<1>2. /\ message_buf' = message_buf /\ data' = chunk /\ stream' = later
      /\ handled' = handled /\ written' = written
  BY DEF receive
<1>3. \A i \in 1 .. Len(stream) : stream[i] \in Token
  BY <1>1, ElementOfSeq
<1>4. chunk \in Seq(Token) /\ Len(chunk) = k /\ later \in Seq(Token)
  <2>1. \A i \in 1 .. k : stream[i] \in Token
    BY <1>1, <1>3
  <2>2. \A i \in k + 1 .. Len(stream) : stream[i] \in Token
    BY <1>1, <1>3
  <2>3. chunk \in Seq(Token) /\ Len(chunk) = IF 1 <= k THEN k - 1 + 1 ELSE 0
    BY <1>1, <2>1, SubSeqProperties
  <2>4. later \in Seq(Token)
    BY <1>1, <2>2, SubSeqProperties
  <2>. QED BY <2>3, <2>4
<1>5. chunk \o later = stream
  <2>1. SubSeq(stream, 1, k) \o SubSeq(stream, k + 1, Len(stream)) = SubSeq(stream, 1, Len(stream))
    <3>1. 1 \in 1 .. Len(stream) + 1 /\ k \in 1 - 1 .. Len(stream) /\ Len(stream) \in k .. Len(stream)
      BY <1>1
    <3>. QED BY <1>1, <3>1, ConcatAdjacentSubSeq
  <2>. QED BY <1>1, <2>1, SubSeqFull
<1>. HIDE DEF chunk, later
<1>6. OnItsWay' = OnItsWay
  <2>1. Arrived = message_buf
    BY <1>1, ConcatEmptySeq DEF Arrived
  <2>2. OnItsWay' = (message_buf \o chunk) \o later
    BY <1>2 DEF Arrived, OnItsWay
  <2>3. (message_buf \o chunk) \o later = message_buf \o (chunk \o later)
    <3>1. message_buf \in Seq(Token) /\ chunk \in Seq(Token) /\ later \in Seq(Token)
      BY <1>1, <1>4
    <3>. QED BY <3>1, ConcatAssociative
  <2>. QED BY <1>5, <2>1, <2>2, <2>3 DEF OnItsWay
<1>7. data' # <<>>
  BY <1>2, <1>4
<1>8. frTypeOK'
  BY <1>2, <1>4 DEF FInv, frTypeOK
<1>9. IsCut' /\ LengthsFollowBodies(OnItsWay') /\ HandledIsPrefix'
  BY <1>2, <1>6, SameOnItsWay
<1>. QED BY <1>7, <1>8, <1>9 DEF FInv, NothingIsKept

LEMMA KeepLookingKeeps ==
  ASSUME FInv, take_message, ~complete(Arrived)
  PROVE  FInv'
<1>1. /\ message_buf' = Arrived /\ data' = <<>> /\ stream' = stream
      /\ handled' = handled /\ written' = written
  BY DEF take_message, Arrived
<1>2. Arrived \in Seq(Token)
  BY OnItsWayForm DEF FInv
<1>3. OnItsWay' = OnItsWay
  BY <1>1, <1>2, ConcatEmptySeq DEF Arrived, OnItsWay
<1>4. frTypeOK'
  BY <1>1, <1>2 DEF FInv, frTypeOK
<1>5. NothingIsKept'
  BY <1>1 DEF NothingIsKept
<1>6. IsCut' /\ LengthsFollowBodies(OnItsWay') /\ HandledIsPrefix'
  BY <1>1, <1>3, SameOnItsWay
<1>. QED BY <1>4, <1>5, <1>6 DEF FInv

(* The pieces behind the first one, when it is gone.                       *)
LEMMA PiecesMove ==
  ASSUME FInv, NEW b \in [0 .. Len(written) -> Nat], NEW f \in [1 .. Len(written) -> BOOLEAN],
         CutBy(b, f), Len(handled) # Len(written), written' = written,
         Len(handled') = Len(handled) + 1, IsRest(OnItsWay', OnItsWay, b[Len(handled) + 1])
  PROVE  IsCut'
<1>. DEFINE w == Len(written)
            h == Len(handled)
            n == b[h + 1]
<1>1. /\ w \in Nat /\ h \in Nat /\ h + 1 <= w /\ h + 1 \in h + 1 .. w
      /\ \A j \in 1 .. w : written[j] \in Bodies
  BY OnItsWayForm DEF FInv, HandledIsPrefix
<1>2. /\ b[w] = Len(OnItsWay)
      /\ \A i, j \in h + 1 .. w : i <= j => b[i] <= b[j]
      /\ \A j \in h + 1 .. w :
           /\ b[j] = b[j - 1] + HeaderLen(f[j]) + Len(written[j])
           /\ MessageAt(OnItsWay, b[j - 1], written[j], f[j])
  BY DEF CutBy, Unhandled
<1>3. \A j \in h + 1 .. w : b[j] \in Nat /\ n <= b[j] /\ b[j] <= Len(OnItsWay)
  <2>1. ASSUME NEW j \in h + 1 .. w
        PROVE  j \in 0 .. w /\ w \in h + 1 .. w /\ h + 1 <= j /\ j <= w
    BY <1>1
  <2>. QED BY <1>1, <1>2, <2>1
<1>4. /\ OnItsWay' \in Seq(Token) /\ Len(OnItsWay') + n = Len(OnItsWay) /\ n \in Nat
      /\ Len(OnItsWay') \in Nat /\ Len(OnItsWay) \in Nat
      /\ \A i \in 1 .. Len(OnItsWay') : OnItsWay'[i] = OnItsWay[n + i]
  BY LenProperties DEF IsRest
<1>5. PICK c \in [0 .. w -> Nat] : \A j \in h + 1 .. w : c[j] = b[j] - n
  <2>. DEFINE c0 == [j \in 0 .. w |-> IF j \in h + 1 .. w THEN b[j] - n ELSE 0]
  <2>1. ASSUME NEW j \in h + 1 .. w PROVE b[j] - n \in Nat /\ j \in 0 .. w
    BY <1>1, <1>3, <1>4
  <2>2. c0 \in [0 .. w -> Nat] /\ \A j \in h + 1 .. w : c0[j] = b[j] - n
    BY <2>1
  <2>. HIDE DEF c0
  <2>. QED BY <2>2
<1>6. c[h + 1] = 0 /\ c[w] = Len(OnItsWay')
  <2>1. w \in h + 1 .. w
    BY <1>1
  <2>2. c[h + 1] = n - n /\ c[w] = Len(OnItsWay) - n
    BY <1>1, <1>2, <1>5, <2>1
  <2>. QED BY <1>4, <2>2
<1>7. ASSUME NEW i \in h + 2 .. w, NEW j \in h + 2 .. w, i <= j PROVE c[i] <= c[j]
  <2>1. i \in h + 1 .. w /\ j \in h + 1 .. w
    BY <1>1
  <2>2. c[i] = b[i] - n /\ c[j] = b[j] - n /\ b[i] <= b[j] /\ b[i] \in Nat /\ b[j] \in Nat
    BY <1>2, <1>3, <1>5, <1>7, <2>1
  <2>. QED BY <1>4, <2>2
<1>8. ASSUME NEW j \in h + 2 .. w
      PROVE  /\ c[j] = c[j - 1] + HeaderLen(f[j]) + Len(written[j])
             /\ MessageAt(OnItsWay', c[j - 1], written[j], f[j])
  <2>1. j \in h + 1 .. w /\ j - 1 \in h + 1 .. w /\ j \in 1 .. w /\ j - 1 \in 0 .. w
    BY <1>1
  <2>2. /\ c[j] = b[j] - n /\ c[j - 1] = b[j - 1] - n
        /\ b[j] \in Nat /\ b[j - 1] \in Nat /\ n <= b[j - 1] /\ b[j] <= Len(OnItsWay)
        /\ c[j - 1] \in Nat
    BY <1>3, <1>5, <2>1
  <2>3. /\ b[j] = b[j - 1] + HeaderLen(f[j]) + Len(written[j])
        /\ MessageAt(OnItsWay, b[j - 1], written[j], f[j])
    BY <1>2, <2>1
  <2>4. written[j] \in Bodies /\ f[j] \in BOOLEAN
    BY <1>1, <2>1
  <2>5. HeaderLen(f[j]) \in Nat /\ Len(written[j]) \in Nat
    BY <2>4, BodyType DEF HeaderLen
  <2>6. /\ c[j] = c[j - 1] + HeaderLen(f[j]) + Len(written[j])
        /\ c[j - 1] + HeaderLen(f[j]) + Len(written[j]) <= Len(OnItsWay')
        /\ \A i \in 1 .. HeaderLen(f[j]) + Len(written[j]) : n + (c[j - 1] + i) = b[j - 1] + i
    <3>1. PICK lo \in Nat, hi \in Nat, m \in Nat, x \in Nat, l \in Nat, top \in Nat, top1 \in Nat :
            /\ lo = b[j - 1] /\ hi = b[j] /\ m = n /\ x = HeaderLen(f[j]) /\ l = Len(written[j])
            /\ top = Len(OnItsWay) /\ top1 = Len(OnItsWay')
      BY <1>4, <2>2, <2>5
    <3>2. hi = lo + x + l /\ m <= lo /\ hi <= top /\ top1 + m = top
      BY <1>4, <2>2, <2>3, <3>1
    <3>3. /\ hi - m = (lo - m) + x + l /\ (lo - m) + x + l <= top1
          /\ \A i \in 1 .. x + l : m + ((lo - m) + i) = lo + i
      BY <3>2
    <3>4. c[j] = hi - m /\ c[j - 1] = lo - m
      BY <2>2, <3>1
    <3>5. \A i \in 1 .. x + l : m + (c[j - 1] + i) = lo + i
      BY <3>3, <3>4
    <3>. QED BY <3>1, <3>3, <3>4, <3>5
  <2>7. SameTokens(OnItsWay', c[j - 1], OnItsWay, b[j - 1], HeaderLen(f[j]) + Len(written[j]))
    <3>1. \A i \in 1 .. HeaderLen(f[j]) + Len(written[j]) : c[j - 1] + i \in 1 .. Len(OnItsWay')
      BY <1>4, <2>2, <2>5, <2>6, InRange
    <3>. QED BY <1>4, <2>6, <3>1 DEF SameTokens
  <2>8. MessageAt(OnItsWay', c[j - 1], written[j], f[j])
    BY <2>2, <2>3, <2>4, <2>7, MessageMoves
  <2>. QED BY <2>6, <2>8
<1>9. CutBy(c, f)'
  <2>1. Unhandled' = h + 2 .. w
    BY <1>1 DEF Unhandled
  <2>. QED BY <1>6, <1>7, <1>8, <2>1 DEF CutBy
<1>. QED BY <1>5, <1>9 DEF IsCut

LEMMA TakeKeeps ==
  ASSUME FInv, take_message, complete(Arrived)
  PROVE  FInv'
<1>1. Len(handled) # Len(written)
  BY NoMessage, NothingToFind
<1>2. PICK b \in [0 .. Len(written) -> Nat], f \in [1 .. Len(written) -> BOOLEAN] : CutBy(b, f)
  BY DEF FInv, IsCut
<1>. DEFINE j == Len(handled) + 1
            n == HeaderLen(f[j]) + Len(written[j])
            after == DataAfter(Arrived)
<1>3. /\ j \in Unhandled /\ written[j] \in Bodies /\ f[j] \in BOOLEAN
      /\ MessageAt(OnItsWay, 0, written[j], f[j]) /\ b[j] = n
  BY <1>1, <1>2, FirstMessage
<1>4. /\ Arrived \in Seq(Token) /\ OnItsWay \in Seq(Token) /\ Begins(Arrived, OnItsWay)
      /\ IsRest(stream, OnItsWay, Len(Arrived)) /\ LengthsFollowBodies(OnItsWay)
      /\ stream \in Seq(Token) /\ handled \in Seq(Bodies) /\ written \in Seq(Bodies)
      /\ Len(handled) \in Nat /\ Len(written) \in Nat
  BY OnItsWayForm DEF FInv, frTypeOK
<1>5. n \in Nat
  <2>1. Len(written[j]) \in Nat /\ HeaderLen(f[j]) \in Nat
    BY <1>3, BodyType DEF HeaderLen
  <2>. QED BY <2>1
<1>6. /\ SubSeq(rest(Arrived), 1, length(Arrived)) = written[j]
      /\ after \in Seq(Token) /\ Len(after) = Len(Arrived) - n
      /\ \A i \in 1 .. Len(after) : after[i] = Arrived[n + i]
  <2>1. PICK body \in Bodies, field \in BOOLEAN : body = written[j] /\ field = f[j]
    BY <1>3
  <2>2. MessageAt(OnItsWay, 0, body, field)
    BY <1>3, <2>1
  <2>3. /\ SubSeq(rest(Arrived), 1, length(Arrived)) = body
        /\ DataAfter(Arrived) \in Seq(Token)
        /\ Len(DataAfter(Arrived)) = Len(Arrived) - (HeaderLen(field) + Len(body))
        /\ \A i \in 1 .. Len(DataAfter(Arrived)) :
              DataAfter(Arrived)[i] = Arrived[HeaderLen(field) + Len(body) + i]
    BY <1>4, <2>2, CompleteFound
  <2>. QED BY <2>1, <2>3
<1>. HIDE DEF n, after
<1>7. /\ message_buf' = <<>> /\ data' = after /\ stream' = stream /\ written' = written
      /\ handled' = Append(handled, written[j])
  BY <1>6 DEF take_message, Arrived, BufAfter, after
<1>8. /\ handled' \in Seq(Bodies) /\ Len(handled') = Len(handled) + 1
      /\ \A i \in 1 .. Len(handled) : handled'[i] = handled[i]
      /\ handled'[j] = written[j]
  BY <1>3, <1>4, <1>7, AppendProperties
<1>9. OnItsWay' = after \o stream
  BY <1>6, <1>7, ConcatEmptySeq DEF OnItsWay, Arrived
<1>10. IsRest(OnItsWay', OnItsWay, n)
  <2>. DEFINE u == after \o stream
  <2>1. /\ u \in Seq(Token) /\ Len(after) \in Nat /\ Len(stream) \in Nat
        /\ Len(u) = Len(after) + Len(stream)
        /\ \A i \in 1 .. Len(after) : u[i] = after[i]
        /\ \A i \in 1 .. Len(stream) : u[Len(after) + i] = stream[i]
    BY <1>4, <1>6, ConcatForm
  <2>. HIDE DEF u
  <2>2. /\ Len(Arrived) \in Nat /\ Len(stream) + Len(Arrived) = Len(OnItsWay)
        /\ \A i \in 1 .. Len(stream) : stream[i] = OnItsWay[Len(Arrived) + i]
        /\ \A i \in 1 .. Len(Arrived) : Arrived[i] = OnItsWay[i]
    BY <1>4 DEF IsRest, Begins
  <2>3. Len(u) + n = Len(OnItsWay)
    BY <1>5, <1>6, <2>1, <2>2
  <2>4. ASSUME NEW i \in 1 .. Len(u) PROVE u[i] = OnItsWay[n + i]
    <3>1. CASE i <= Len(after)
      <4>1. i \in 1 .. Len(after) /\ n + i \in 1 .. Len(Arrived)
        BY <1>5, <1>6, <2>1, <2>2, <3>1
      <4>. QED BY <1>6, <2>1, <2>2, <4>1
    <3>2. CASE i > Len(after)
      <4>1. /\ i - Len(after) \in 1 .. Len(stream) /\ Len(after) + (i - Len(after)) = i
            /\ Len(Arrived) + (i - Len(after)) = n + i
        BY <1>5, <1>6, <2>1, <2>2, <3>2
      <4>. QED BY <2>1, <2>2, <4>1
    <3>. QED BY <2>1, <3>1, <3>2
  <2>. QED BY <1>4, <1>5, <1>9, <2>1, <2>3, <2>4 DEF IsRest, u
<1>11. frTypeOK'
  BY <1>4, <1>6, <1>7, <1>8 DEF frTypeOK
<1>12. IsCut'
  BY <1>1, <1>2, <1>3, <1>7, <1>8, <1>10, PiecesMove DEF n
<1>13. LengthsFollowBodies(OnItsWay')
  BY <1>4, <1>10, LengthsOfRest
<1>14. HandledIsPrefix'
  <2>1. Len(handled) <= Len(written) /\ \A i \in 1 .. Len(handled) : handled[i] = written[i]
    BY DEF FInv, HandledIsPrefix
  <2>2. Len(handled') <= Len(written')
    BY <1>1, <1>4, <1>7, <1>8, <2>1
  <2>3. \A i \in 1 .. Len(handled') : handled'[i] = written'[i]
    <3>1. \A i \in 1 .. Len(handled') : i \in 1 .. Len(handled) \/ i = j
      BY <1>4, <1>8
    <3>. QED BY <1>7, <1>8, <2>1, <3>1
  <2>. QED BY <2>2, <2>3 DEF HandledIsPrefix
<1>15. NothingIsKept'
  BY <1>7, NothingToFind DEF NothingIsKept
<1>. QED BY <1>11, <1>12, <1>13, <1>14, <1>15 DEF FInv

LEMMA FramingNext ==
  ASSUME FInv, [frNext]_frVars
  PROVE  FInv'
<1>1. CASE \E body \in Bodies, field \in BOOLEAN : send(body, field)
  BY <1>1, SendKeeps
<1>2. CASE \E k \in 1 .. Len(stream) : receive(k)
  BY <1>2, ReceiveKeeps
<1>3. CASE take_message
  BY <1>3, TakeKeeps, KeepLookingKeeps
<1>4. CASE UNCHANGED frVars
  <2>1. UNCHANGED <<message_buf, data, handled, written, stream>>
    BY <1>4 DEF frVars
  <2>2. OnItsWay' = OnItsWay
    BY <2>1 DEF OnItsWay, Arrived
  <2>3. IsCut' /\ LengthsFollowBodies(OnItsWay') /\ HandledIsPrefix'
    BY <2>1, <2>2, SameOnItsWay
  <2>4. frTypeOK' /\ NothingIsKept'
    BY <2>1 DEF FInv, frTypeOK, NothingIsKept
  <2>. QED BY <2>3, <2>4 DEF FInv
<1>. QED BY <1>1, <1>2, <1>3, <1>4 DEF frNext

(* Whatever is sent, in whatever chunks it arrives, the bodies given to    *)
(* _handle_body are those that were sent, whole and in order, and all of   *)
(* them when nothing is left to arrive.                                    *)
THEOREM MessagesComeOut == frSpec => []HandledInOrder
<1>1. frInit => FInv
  BY FramingInit
<1>2. FInv /\ [frNext]_frVars => FInv'
  BY FramingNext
<1>3. FInv => HandledInOrder
  BY AllIsHandled
<1>. QED BY <1>1, <1>2, <1>3, PTL DEF frSpec
=============================================================================
