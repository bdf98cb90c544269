--------------------------- MODULE DocumentCache ---------------------------
(***************************************************************************)
(* The cache a TextDocument keeps of what was computed from its text:      *)
(* tokens, models, namespaces (language_server/common/text_document.py).   *)
(*                                                                         *)
(* Tasks of the event loop ask for a key with get_cache; the first one to  *)
(* hold the lock of the key's entry computes, the others wait and share.   *)
(* A change of the text empties the cache while computations go on.        *)
(*                                                                         *)
(* The lock of the document is never held across an await, so the code     *)
(* under it is part of the action it occurs in.                            *)
(***************************************************************************)
EXTENDS Integers, FiniteSets

CONSTANTS
  Tasks,        (* the tasks that use the cache                            *)
  Keys,         (* the functions whose results are cached                  *)
  MaxVersion,   (* bound: changes of the text                              *)
  MaxEntry      (* bound: entries that are created                         *)

ASSUME CacheAssumption == MaxVersion \in Nat /\ MaxEntry \in Nat

Entries == 1 .. MaxEntry
Versions == 0 .. MaxVersion

VARIABLES
  (* TextDocument *)
  text,       (* which text it is: the number of changes                   *)
  cache,      (* _cache: the entry of every key, 0 for none                *)
  created,    (* how many entries were created                             *)
  (* CacheEntry *)
  data,       (* the text its data was made from, -1 for none              *)
  lock,       (* the tasks that hold its lock, at most one                 *)
  (* the calls of get_cache *)
  pc,
  entry,      (* e                                                         *)
  asked,      (* history: the text when the call began                     *)
  since,      (* the text when the computation began to read it            *)
  result      (* the text the result was made from                         *)

document == <<text, cache, created>>
entries == <<data, lock>>
calls == <<pc, entry, asked, since, result>>
vars == <<document, entries, calls>>

Init ==
  /\ text = 0 /\ cache = [k \in Keys |-> 0] /\ created = 0
  /\ data = [e \in Entries |-> -1] /\ lock = [e \in Entries |-> {}]
  /\ pc = [t \in Tasks |-> "idle"] /\ entry = [t \in Tasks |-> 0]
  /\ asked = [t \in Tasks |-> 0] /\ since = [t \in Tasks |-> 0]
  /\ result = [t \in Tasks |-> 0]

-----------------------------------------------------------------------------
(* get_cache                                                               *)

(* A task that has the lock of e computes, unless the data is there.       *)
(* Mutant: it does not take the lock.                                      *)
EnterUnlocked(t, e) ==
  IF data[e] = -1
  THEN /\ pc' = [pc EXCEPT ![t] = "computing"]
       /\ UNCHANGED <<lock, result>>
  ELSE /\ pc' = [pc EXCEPT ![t] = "returned"]
       /\ result' = [result EXCEPT ![t] = data[e]]
       /\ UNCHANGED lock
Enter(t, e) ==
  IF data[e] = -1
  THEN /\ lock' = [lock EXCEPT ![e] = {t}]
       /\ pc' = [pc EXCEPT ![t] = "computing"]
       /\ UNCHANGED result
  ELSE /\ pc' = [pc EXCEPT ![t] = "returned"]
       /\ result' = [result EXCEPT ![t] = data[e]]
       /\ UNCHANGED lock

(* The entry is looked up or created, and its lock taken if it is free.    *)
get_cache(t, k) ==
  \E e \in Entries :
    /\ pc[t] \in {"idle", "returned"}
    /\ \/ cache[k] = e /\ UNCHANGED <<cache, created>>
       \/ /\ cache[k] = 0 /\ e = created + 1
          /\ created' = e
          /\ cache' = [cache EXCEPT ![k] = e]
    /\ entry' = [entry EXCEPT ![t] = e]
    /\ asked' = [asked EXCEPT ![t] = text]
    /\ IF lock[e] = {}
       THEN Enter(t, e)
       ELSE pc' = [pc EXCEPT ![t] = "waiting"] /\ UNCHANGED <<lock, result>>
    /\ UNCHANGED <<text, data, since>>

acquire(t) ==
  /\ pc[t] = "waiting" /\ lock[entry[t]] = {}
  /\ Enter(t, entry[t])
  /\ UNCHANGED <<document, data, entry, asked, since>>

(* The function begins to look at the text, on its own or by way of        *)
(* another entry of the cache.                                             *)
begin_reading(t) ==
  /\ pc[t] = "computing"
  /\ pc' = [pc EXCEPT ![t] = "reading"]
  /\ since' = [since EXCEPT ![t] = text]
  /\ UNCHANGED <<document, entries, entry, asked, result>>

(* It returns something made from a text the document had meanwhile.       *)
compute(t) ==
  /\ pc[t] = "reading"
  /\ \E v \in since[t] .. text :
       /\ data' = [data EXCEPT ![entry[t]] = v]
       /\ result' = [result EXCEPT ![t] = v]
  /\ lock' = [lock EXCEPT ![entry[t]] = {}]
  /\ pc' = [pc EXCEPT ![t] = "returned"]
  /\ UNCHANGED <<document, entry, asked, since>>

(* It raises an exception, or the task is cancelled.                       *)
(* Mutant: the lock is not released.                                       *)
fail_locked(t) ==
  /\ pc[t] \in {"waiting", "computing", "reading"}
  /\ pc' = [pc EXCEPT ![t] = "idle"]
  /\ UNCHANGED <<document, entries, entry, asked, since, result>>
fail(t) ==
  /\ pc[t] \in {"waiting", "computing", "reading"}
  /\ lock' = [lock EXCEPT ![entry[t]] = @ \ {t}]
  /\ pc' = [pc EXCEPT ![t] = "idle"]
  /\ UNCHANGED <<document, data, entry, asked, since, result>>

-----------------------------------------------------------------------------
(* The document changes                                                    *)

(* Mutant: only the text and its lines are replaced.                       *)
KeepCache == UNCHANGED cache
_invalidate_cache == cache' = [k \in Keys |-> 0]

(* apply_full_change, apply_incremental_change                             *)
apply_change ==
  /\ text < MaxVersion
  /\ text' = text + 1
  /\ _invalidate_cache
  /\ UNCHANGED <<created, entries, calls>>

(* apply_none_change, invalidate_cache, clear                              *)
invalidate_cache ==
  /\ _invalidate_cache
  /\ UNCHANGED <<text, created, entries, calls>>

remove_cache_entry(k) ==
  /\ cache' = [cache EXCEPT ![k] = 0]
  /\ UNCHANGED <<text, created, entries, calls>>

-----------------------------------------------------------------------------
Step(t) == acquire(t) \/ begin_reading(t) \/ compute(t)

Next ==
  \/ \E t \in Tasks : Step(t) \/ fail(t) \/ \E k \in Keys : get_cache(t, k)
  \/ apply_change \/ invalidate_cache \/ \E k \in Keys : remove_cache_entry(k)

Spec == Init /\ [][Next]_vars

(* The loop runs every task, and computations end.  A task that waits gets *)
(* the lock before those that come later.                                  *)
FairSpec == Spec /\ \A t \in Tasks : WF_vars(begin_reading(t) \/ compute(t)) /\ SF_vars(acquire(t))

-----------------------------------------------------------------------------
(* Properties                                                              *)

(* The types of the variables.                                             *)
TypeOK ==
  /\ text \in Versions /\ cache \in [Keys -> 0 .. MaxEntry] /\ created \in 0 .. MaxEntry
  /\ data \in [Entries -> Versions \cup {-1}] /\ lock \in [Entries -> SUBSET Tasks]
  /\ pc \in [Tasks -> {"idle", "waiting", "computing", "reading", "returned"}]
  /\ entry \in [Tasks -> 0 .. MaxEntry]
  /\ asked \in [Tasks -> Versions] /\ since \in [Tasks -> Versions]
  /\ result \in [Tasks -> Versions]

(* What the cache holds was made from the text the document has now, also  *)
(* if the text changed while it was computed.                              *)
CacheIsCurrent == \A k \in Keys : cache[k] # 0 /\ data[cache[k]] # -1 => data[cache[k]] = text

(* No caller is given anything made from a text older than the one the     *)
(* document had when it asked.                                             *)
ResultsAreFresh == \A t \in Tasks : pc[t] = "returned" => asked[t] <= result[t]

(* Whoever computes holds the lock of its entry, alone, and the entry has  *)
(* no data yet: nothing is computed twice at once.                         *)
OneComputes ==
  /\ \A t \in Tasks : pc[t] \in {"computing", "reading"} =>
       lock[entry[t]] = {t} /\ data[entry[t]] = -1
  /\ \A e \in Entries : \A t \in lock[e] : pc[t] \in {"computing", "reading"} /\ entry[t] = e

(* A task that waits for an entry is not left waiting, also if the one     *)
(* that computes fails.                                                    *)
WaitersProceed == \A t \in Tasks : pc[t] = "waiting" ~> pc[t] # "waiting"
=============================================================================
