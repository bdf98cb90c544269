------------------------ MODULE DocumentCache_proofs ------------------------
(***************************************************************************)
(* Proofs about DocumentCache, for any tasks, keys and bounds.             *)
(*                                                                         *)
(* CacheIsCurrent holds because an entry of the cache was created after    *)
(* the last change of the text, so that whoever reads for it reads the     *)
(* present text (Reading).  ResultsAreFresh also covers callers of entries *)
(* that fell out of the cache: whoever computes for them began to read     *)
(* after they asked (Waiting).                                             *)
(***************************************************************************)
EXTENDS DocumentCache, TLAPS

(* Entries are numbered in the order of their creation, a new one is empty.*)
Linked ==
  /\ \A k \in Keys : cache[k] <= created
  /\ \A t \in Tasks : pc[t] # "idle" => entry[t] \in 1 .. created
  /\ \A e \in Entries : e > created => data[e] = -1 /\ lock[e] = {}

(* Whoever reads began after it asked; for an entry of the cache nothing   *)
(* has changed since.                                                      *)
Reading ==
  /\ \A t \in Tasks : asked[t] <= text
  /\ \A t \in Tasks : pc[t] = "reading" => asked[t] <= since[t] /\ since[t] <= text
  /\ \A t \in Tasks, k \in Keys :
       pc[t] = "reading" /\ entry[t] = cache[k] => since[t] = text

(* Whoever waits asked no later than the text is read for its entry.       *)
Waiting ==
  /\ \A t \in Tasks : pc[t] = "waiting" /\ data[entry[t]] # -1 => asked[t] <= data[entry[t]]
  /\ \A t, u \in Tasks :
       pc[t] = "waiting" /\ pc[u] = "reading" /\ entry[t] = entry[u] => asked[t] <= since[u]

IInv ==
  /\ TypeOK /\ Linked /\ OneComputes /\ Reading /\ Waiting
  /\ CacheIsCurrent /\ ResultsAreFresh

USE CacheAssumption

LEMMA InitIInv == Init => IInv
BY DEF Init, IInv, TypeOK, Linked, OneComputes, Reading, Waiting, CacheIsCurrent, ResultsAreFresh,
       Entries, Versions

(* What the arithmetic of the proofs needs of the types.                   *)
LEMMA Numbers ==
  IInv => /\ text \in Int /\ created \in Int
          /\ \A e \in Entries : e \in Int /\ data[e] \in Int
          /\ \A t \in Tasks : asked[t] \in Int /\ since[t] \in Int /\ result[t] \in Int
          /\ \A t \in Tasks : entry[t] \in Int /\ (pc[t] # "idle" => entry[t] \in Entries)
BY DEF IInv, TypeOK, Linked, Entries, Versions

(* A task that asks joins an entry that is current, or creates one.        *)
LEMMA GetCacheIInv ==
  ASSUME IInv, NEW t \in Tasks, NEW k \in Keys, get_cache(t, k)
  PROVE  IInv'
<1>1. PICK e \in Entries :
        /\ pc[t] \in {"idle", "returned"}
        /\ \/ cache[k] = e /\ UNCHANGED <<cache, created>>
           \/ /\ cache[k] = 0 /\ e = created + 1
              /\ created' = e
              /\ cache' = [cache EXCEPT ![k] = e]
        /\ entry' = [entry EXCEPT ![t] = e]
        /\ asked' = [asked EXCEPT ![t] = text]
        /\ IF lock[e] = {}
           THEN Enter(t, e)
           ELSE pc' = [pc EXCEPT ![t] = "waiting"] /\ UNCHANGED <<lock, result>>
        /\ UNCHANGED <<text, data, since>>
  BY DEF get_cache
<1>2. /\ created' \in 0 .. MaxEntry /\ created <= created' /\ e \in 1 .. created'
      /\ cache' \in [Keys -> 0 .. MaxEntry]
      /\ \A j \in Keys : cache'[j] = cache[j] \/ (j = k /\ cache'[j] = e)
      /\ data[e] # -1 => data[e] = text
      /\ \A u \in Tasks : pc[u] = "reading" /\ entry[u] = e => since[u] = text
  <2>1. CASE cache[k] = e /\ UNCHANGED <<cache, created>>
    <3>1. e \in 1 .. created /\ created \in 0 .. MaxEntry
      BY <2>1 DEF IInv, TypeOK, Linked, Entries
    <3>2. data[e] # -1 => data[e] = text
      BY <2>1, <3>1 DEF IInv, CacheIsCurrent
    <3>3. \A u \in Tasks : pc[u] = "reading" /\ entry[u] = e => since[u] = text
      BY <2>1 DEF IInv, Reading
    <3>. QED BY <2>1, <3>1, <3>2, <3>3 DEF IInv, TypeOK
  <2>2. CASE cache[k] = 0 /\ e = created + 1 /\ created' = e /\ cache' = [cache EXCEPT ![k] = e]
    <3>1. e > created /\ created \in 0 .. MaxEntry /\ e \in 1 .. MaxEntry
      BY <2>2 DEF IInv, TypeOK, Entries
    <3>2. data[e] = -1
      BY <3>1 DEF IInv, Linked
    <3>3. \A u \in Tasks : pc[u] = "reading" => entry[u] # e
      BY <3>1 DEF IInv, Linked
    <3>. QED BY <2>2, <3>1, <3>2, <3>3 DEF IInv, TypeOK
  <2>. QED BY <1>1, <2>1, <2>2
<1>3. /\ pc' \in [Tasks -> {"idle", "waiting", "computing", "reading", "returned"}]
      /\ lock' \in [Entries -> SUBSET Tasks] /\ result' \in [Tasks -> Versions]
      /\ \A u \in Tasks : u # t => pc'[u] = pc[u] /\ result'[u] = result[u]
      /\ \A f \in Entries : f # e => lock'[f] = lock[f]
      /\ \/ pc'[t] = "computing" /\ lock[e] = {} /\ lock'[e] = {t} /\ data[e] = -1
         \/ pc'[t] = "returned" /\ data[e] # -1 /\ result'[t] = data[e] /\ lock'[e] = lock[e]
         \/ pc'[t] = "waiting" /\ lock'[e] = lock[e]
  <2>1. CASE lock[e] = {} /\ data[e] = -1
    BY <1>1, <2>1 DEF Enter, IInv, TypeOK
  <2>2. CASE lock[e] = {} /\ data[e] # -1
    BY <1>1, <2>2 DEF Enter, IInv, TypeOK
  <2>3. CASE lock[e] # {}
    BY <1>1, <2>3 DEF IInv, TypeOK
  <2>. QED BY <2>1, <2>2, <2>3
<1>4. TypeOK'
  BY <1>1, <1>2, <1>3 DEF IInv, TypeOK
<1>5. Linked'
  BY <1>1, <1>2, <1>3 DEF IInv, TypeOK, Linked
<1>6. OneComputes'
  <2>1. \A f \in Entries : t \notin lock[f]
    BY <1>1 DEF IInv, OneComputes
  <2>2. data' = data /\ entry' = [entry EXCEPT ![t] = e] /\ e \in Entries
    BY <1>1
  <2>3. \A u \in Tasks : u # t => entry'[u] = entry[u] /\ pc'[u] = pc[u]
    BY <1>3, <2>2 DEF IInv, TypeOK
  <2>4. entry'[t] = e
    BY <2>2 DEF IInv, TypeOK
  <2>5. \A u \in Tasks : pc'[u] \in {"computing", "reading"} =>
          lock'[entry'[u]] = {u} /\ data'[entry'[u]] = -1
    <3>1. ASSUME NEW u \in Tasks, u # t, pc[u] \in {"computing", "reading"}
          PROVE  lock'[entry[u]] = {u} /\ data[entry[u]] = -1
      <4>1. lock[entry[u]] = {u} /\ data[entry[u]] = -1 /\ entry[u] \in Entries
        BY <3>1, Numbers DEF IInv, OneComputes
      <4>2. lock'[entry[u]] = lock[entry[u]]
        BY <1>3, <3>1, <4>1
      <4>. QED BY <4>1, <4>2
    <3>2. pc'[t] \in {"computing", "reading"} => lock'[e] = {t} /\ data[e] = -1
      BY <1>3
    <3>. QED BY <2>2, <2>3, <2>4, <3>1, <3>2
  <2>6. \A f \in Entries : \A u \in lock'[f] :
          pc'[u] \in {"computing", "reading"} /\ entry'[u] = f
    <3>1. \A f \in Entries : \A u \in lock[f] :
            u # t /\ u \in Tasks /\ pc[u] \in {"computing", "reading"} /\ entry[u] = f
      BY <2>1 DEF IInv, TypeOK, OneComputes
    <3>2. \A f \in Entries : lock'[f] = lock[f] \/ (f = e /\ lock'[f] = {t} /\ pc'[t] = "computing")
      BY <1>3
    <3>. QED BY <2>3, <2>4, <3>1, <3>2
  <2>. QED BY <2>5, <2>6 DEF OneComputes
<1>7. Reading'
  BY Numbers, <1>1, <1>2, <1>3 DEF IInv, TypeOK, Reading, Linked
<1>8. Waiting'
  BY Numbers, <1>1, <1>2, <1>3 DEF IInv, TypeOK, Waiting, Linked
<1>9. CacheIsCurrent'
  BY <1>1, <1>2, <1>3 DEF IInv, TypeOK, CacheIsCurrent, Linked
<1>10. ResultsAreFresh'
  BY Numbers, <1>1, <1>2, <1>3 DEF IInv, TypeOK, ResultsAreFresh
<1>. QED BY <1>4, <1>5, <1>6, <1>7, <1>8, <1>9, <1>10 DEF IInv

(* A task that gets the lock finds data it may use, or computes.           *)
LEMMA AcquireIInv ==
  ASSUME IInv, NEW t \in Tasks, acquire(t)
  PROVE  IInv'
<1>. DEFINE e == entry[t]
<1>1. /\ pc[t] = "waiting" /\ lock[e] = {} /\ e \in Entries
      /\ UNCHANGED <<document, data, entry, asked, since>>
  BY Numbers DEF acquire, IInv, TypeOK
<1>2. /\ pc' \in [Tasks -> {"idle", "waiting", "computing", "reading", "returned"}]
      /\ lock' \in [Entries -> SUBSET Tasks] /\ result' \in [Tasks -> Versions]
      /\ \A u \in Tasks : u # t => pc'[u] = pc[u] /\ result'[u] = result[u]
      /\ \A f \in Entries : f # e => lock'[f] = lock[f]
      /\ \/ pc'[t] = "computing" /\ lock'[e] = {t} /\ data[e] = -1
         \/ pc'[t] = "returned" /\ data[e] # -1 /\ result'[t] = data[e] /\ lock'[e] = lock[e]
  BY <1>1 DEF acquire, Enter, IInv, TypeOK
<1>. HIDE DEF e
<1>3. TypeOK'
  BY <1>1, <1>2 DEF IInv, TypeOK, document
<1>4. Linked'
  BY <1>1, <1>2 DEF IInv, TypeOK, Linked, document, e
<1>5. OneComputes'
  <2>1. \A u \in Tasks : pc[u] \in {"computing", "reading"} => entry[u] # e
    BY <1>1 DEF IInv, OneComputes
  <2>2. \A u \in Tasks : pc[u] \in {"computing", "reading"} => entry[u] \in Entries
    BY Numbers
  <2>3. t \notin lock[entry[t]] /\ \A f \in Entries : t \notin lock[f]
    BY <1>1 DEF IInv, OneComputes, e
  <2>4. ASSUME NEW u \in Tasks, pc'[u] \in {"computing", "reading"}
        PROVE  lock'[entry'[u]] = {u} /\ data'[entry'[u]] = -1
    BY <2>1, <2>2, <2>4, <1>1, <1>2 DEF IInv, OneComputes, e
  <2>5. ASSUME NEW f \in Entries, NEW u \in lock'[f]
        PROVE  pc'[u] \in {"computing", "reading"} /\ entry'[u] = f
    BY <2>3, <1>1, <1>2 DEF IInv, TypeOK, OneComputes, e
  <2>. QED BY <2>4, <2>5 DEF OneComputes
<1>6. Reading' /\ Waiting'
  BY <1>1, <1>2 DEF IInv, TypeOK, Reading, Waiting, document, e
<1>7. CacheIsCurrent' /\ ResultsAreFresh'
  BY <1>1, <1>2 DEF IInv, TypeOK, CacheIsCurrent, ResultsAreFresh, Waiting, document, e
<1>. QED BY <1>3, <1>4, <1>5, <1>6, <1>7 DEF IInv

(* A computation reads the text that is there.                             *)
LEMMA BeginReadingIInv ==
  ASSUME IInv, NEW t \in Tasks, begin_reading(t)
  PROVE  IInv'
<1>. USE DEF begin_reading, document, entries
<1>1. TypeOK' /\ Linked'
  BY DEF IInv, TypeOK, Linked
<1>2. OneComputes'
  BY DEF IInv, TypeOK, OneComputes
<1>3. Reading' /\ Waiting'
  BY Numbers DEF IInv, TypeOK, Reading, Waiting
<1>4. CacheIsCurrent' /\ ResultsAreFresh'
  BY DEF IInv, TypeOK, CacheIsCurrent, ResultsAreFresh
<1>. QED BY <1>1, <1>2, <1>3, <1>4 DEF IInv

(* A computation ends with data as recent as its callers may expect.       *)
LEMMA ComputeIInv ==
  ASSUME IInv, NEW t \in Tasks, compute(t)
  PROVE  IInv'
<1>. DEFINE e == entry[t]
<1>1. PICK v \in since[t] .. text :
        /\ data' = [data EXCEPT ![e] = v]
        /\ result' = [result EXCEPT ![t] = v]
  BY DEF compute
<1>2. /\ pc[t] = "reading" /\ e \in 1 .. created /\ e \in Entries
      /\ v \in Versions /\ lock[e] = {t} /\ asked[t] <= v
      /\ lock' = [lock EXCEPT ![e] = {}]
      /\ pc' = [pc EXCEPT ![t] = "returned"]
      /\ UNCHANGED <<document, entry, asked, since>>
  BY Numbers, <1>1 DEF compute, IInv, TypeOK, Linked, OneComputes, Reading, Versions
<1>3. \A k \in Keys : cache[k] = e => v = text
  BY <1>1, <1>2 DEF IInv, TypeOK, Reading
<1>4. \A u \in Tasks : pc[u] = "waiting" /\ entry[u] = e => asked[u] <= v
  BY Numbers, <1>1, <1>2 DEF IInv, TypeOK, Waiting
<1>5. TypeOK' /\ Linked'
  BY <1>1, <1>2 DEF IInv, TypeOK, Linked, document
<1>6. OneComputes'
  BY <1>1, <1>2 DEF IInv, TypeOK, OneComputes, document
<1>7. Reading' /\ Waiting'
  BY <1>1, <1>2, <1>4 DEF IInv, TypeOK, Reading, Waiting, document, Linked
<1>8. CacheIsCurrent' /\ ResultsAreFresh'
  BY <1>1, <1>2, <1>3 DEF IInv, TypeOK, CacheIsCurrent, ResultsAreFresh, document
<1>. QED BY <1>5, <1>6, <1>7, <1>8 DEF IInv

(* A failure releases the lock if it was held.                             *)
LEMMA FailIInv ==
  ASSUME IInv, NEW t \in Tasks, fail(t)
  PROVE  IInv'
<1>. USE DEF fail, document
<1>1. TypeOK' /\ Linked'
  BY DEF IInv, TypeOK, Linked
<1>2. OneComputes'
  BY DEF IInv, TypeOK, OneComputes, Linked
<1>3. Reading' /\ Waiting'
  BY DEF IInv, TypeOK, Reading, Waiting
<1>4. CacheIsCurrent' /\ ResultsAreFresh'
  BY DEF IInv, TypeOK, CacheIsCurrent, ResultsAreFresh
<1>. QED BY <1>1, <1>2, <1>3, <1>4 DEF IInv

(* A change of the text empties the cache; the others only shrink it.      *)
LEMMA ChangeIInv ==
  ASSUME IInv, apply_change \/ invalidate_cache \/ \E k \in Keys : remove_cache_entry(k)
  PROVE  IInv'
<1>1. /\ UNCHANGED <<created, entries, calls>> /\ text' \in Versions /\ text <= text'
      /\ cache' \in [Keys -> 0 .. MaxEntry]
      /\ \A k \in Keys : cache'[k] = 0 \/ (text' = text /\ cache'[k] = cache[k])
  BY Numbers DEF IInv, TypeOK, apply_change, invalidate_cache, remove_cache_entry, _invalidate_cache,
                 Versions
<1>. USE <1>1 DEF entries, calls
<1>2. TypeOK' /\ Linked' /\ OneComputes'
  BY DEF IInv, TypeOK, Linked, OneComputes
<1>3. Reading' /\ Waiting'
  <2>1. \A t \in Tasks, k \in Keys : pc[t] = "reading" /\ entry[t] = cache'[k] =>
                                     text' = text /\ cache'[k] = cache[k]
    BY Numbers DEF IInv, Linked
  <2>2. Reading'
    BY <2>1, Numbers DEF IInv, TypeOK, Reading, Versions
  <2>3. Waiting'
    BY DEF IInv, Waiting
  <2>. QED BY <2>2, <2>3
<1>4. CacheIsCurrent' /\ ResultsAreFresh'
  BY DEF IInv, TypeOK, CacheIsCurrent, ResultsAreFresh
<1>. QED BY <1>2, <1>3, <1>4 DEF IInv

LEMMA NextIInv == IInv /\ [Next]_vars => IInv'
<1>. SUFFICES ASSUME IInv, [Next]_vars PROVE IInv'
  OBVIOUS
<1>1. ASSUME NEW t \in Tasks, NEW k \in Keys, get_cache(t, k) PROVE IInv'
  BY <1>1, GetCacheIInv
<1>2. ASSUME NEW t \in Tasks, acquire(t) PROVE IInv'
  BY <1>2, AcquireIInv
<1>3. ASSUME NEW t \in Tasks, begin_reading(t) PROVE IInv'
  BY <1>3, BeginReadingIInv
<1>4. ASSUME NEW t \in Tasks, compute(t) PROVE IInv'
  BY <1>4, ComputeIInv
<1>5. ASSUME NEW t \in Tasks, fail(t) PROVE IInv'
  BY <1>5, FailIInv
<1>6. CASE apply_change \/ invalidate_cache \/ \E k \in Keys : remove_cache_entry(k)
  BY <1>6, ChangeIInv
<1>7. CASE UNCHANGED vars
  BY <1>7 DEF vars, document, entries, calls, IInv, TypeOK, Linked, OneComputes, Reading,
              Waiting, CacheIsCurrent, ResultsAreFresh
<1>. QED BY <1>1, <1>2, <1>3, <1>4, <1>5, <1>6, <1>7 DEF Next, Step

LEMMA AlwaysIInv == Spec => []IInv
BY InitIInv, NextIInv, PTL DEF Spec

(* The variables keep their types.                                         *)
THEOREM TypeCorrect == Spec => []TypeOK
BY AlwaysIInv, PTL DEF IInv

(* The cache never holds anything made from an earlier text: a computation *)
(* that a change overtakes stores its data in an entry nobody will find.   *)
THEOREM CacheHoldsCurrent == Spec => []CacheIsCurrent
BY AlwaysIInv, PTL DEF IInv

(* No caller of get_cache is given anything older than its call.           *)
THEOREM ResultsFresh == Spec => []ResultsAreFresh
BY AlwaysIInv, PTL DEF IInv

(* At most one task computes for an entry, and none for one that has data. *)
THEOREM ComputesOnce == Spec => []OneComputes
BY AlwaysIInv, PTL DEF IInv
=============================================================================
