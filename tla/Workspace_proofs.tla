-------------------------- MODULE Workspace_proofs --------------------------
(***************************************************************************)
(* Proofs about the workspace.                                             *)
(*                                                                         *)
(* FileWatchers: types, and that whoever watches is told, for any number   *)
(* of entries, callbacks and patterns.                                     *)
(*                                                                         *)
(* Diagnostics, for any collectors, entries and bounds: NoOrphans is       *)
(* inductive together with the fact that a document has one entry;         *)
(* OnePublishes follows from them because a timer only fires when no entry *)
(* is left to be cancelled.  NeverOlder follows from an invariant on the   *)
(* texts behind what is shown, stored and about to be sent.                *)
(***************************************************************************)
EXTENDS Diagnostics, FileWatchers, SequenceTheorems, TLAPS

-----------------------------------------------------------------------------
(* FileWatchers.                                                           *)


Entry == [callback : Callbacks, watchers : Patterns, parent : Nat,
          child_callbacks : SUBSET Callbacks]

\* Sets of entries hold entries that were made, and a parent is one of them.
fwTypeOK ==
    /\ entry \in Seq(Entry) /\ Len(entry) <= MaxWatchers
    /\ \A e \in DOMAIN entry : entry[e].parent \in DOMAIN entry \union {NoEntry}
    /\ _file_watchers \subseteq DOMAIN entry
    /\ asked \subseteq DOMAIN entry /\ registered \subseteq DOMAIN entry
    /\ listeners \subseteq Callbacks \union DOMAIN entry

\* A change comes to the callback of x as such, or as one of its parent's children.
Reached(x) ==
    \/ entry[x].callback \in listeners
    \/ /\ entry[x].parent # NoEntry
       /\ entry[x].parent \in listeners
       /\ entry[x].callback \in entry[entry[x].parent].child_callbacks

\* The client watches the patterns of x and nobody is about to end that.
Watched(x) == \E y \in registered \ asked : entry[y].watchers = entry[x].watchers

\* An entry is in use from the client's answer until it is removed.
WaitingInv ==
    /\ _file_watchers \intersect asked = {}
    /\ \A e \in _file_watchers : entry[e].parent = NoEntry => e \in registered

\* Entries that wait for the client are served before they are in use: without
\* them the first half is not inductive.
WatchersInv ==
    /\ \A x \in _file_watchers \union (asked \ registered) : x \in silenced \/ Reached(x)
    /\ \A x \in _file_watchers : x \in unwatched \/ Watched(x)

LEMMA Appending ==
    ASSUME NEW s \in Seq(Entry), NEW x \in Entry
    PROVE  /\ Append(s, x) \in Seq(Entry) /\ Len(Append(s, x)) = Len(s) + 1
           /\ DOMAIN Append(s, x) = DOMAIN s \union {Len(s) + 1}
           /\ Len(s) + 1 \notin DOMAIN s
           /\ \A i \in DOMAIN s : Append(s, x)[i] = s[i]
           /\ Append(s, x)[Len(s) + 1] = x
  OBVIOUS

WithChildren(s, p, C) == [s EXCEPT ![p].child_callbacks = C]

\* Giving an entry other children changes nothing else.
LEMMA Children ==
    ASSUME NEW s \in Seq(Entry), NEW p \in DOMAIN s, NEW C \in SUBSET Callbacks,
           NEW t, t = WithChildren(s, p, C)
    PROVE  /\ t \in Seq(Entry) /\ Len(t) = Len(s) /\ DOMAIN t = DOMAIN s
           /\ \A i \in DOMAIN s : /\ t[i].callback = s[i].callback
                                  /\ t[i].watchers = s[i].watchers
                                  /\ t[i].parent = s[i].parent
                                  /\ t[i].child_callbacks = IF i = p THEN C ELSE s[i].child_callbacks
<1>1. ASSUME NEW i \in DOMAIN s
      PROVE  /\ t[i] \in Entry /\ t[i].callback = s[i].callback /\ t[i].watchers = s[i].watchers
             /\ t[i].parent = s[i].parent
             /\ t[i].child_callbacks = IF i = p THEN C ELSE s[i].child_callbacks
  <2>1. s[i] \in Entry
    OBVIOUS
  <2>. QED BY <2>1 DEF Entry, WithChildren
<1>2. DOMAIN t = DOMAIN s /\ DOMAIN s = 1 .. Len(s) /\ Len(s) \in Nat
  BY DEF WithChildren
<1>3. t = [i \in 1 .. Len(s) |-> t[i]]
  BY <1>2 DEF WithChildren
<1>4. t \in Seq(Entry) /\ Len(t) = Len(s)
  BY <1>1, <1>2, <1>3
<1>. QED BY <1>1, <1>2, <1>4

-----------------------------------------------------------------------------

\* What adding an entry to a shared registration does, p being its parent.
LEMMA Added ==
    ASSUME fwTypeOK, NEW c \in Callbacks, NEW w \in Patterns, Len(entry) < MaxWatchers,
           NEW p \in WithPatterns(w), NEW D \in SUBSET Callbacks,
           NEW t, t = WithChildren(entry, p, D),
           entry' = Append(t, FileWatcherEntry(c, w, p))
    PROVE  /\ entry' \in Seq(Entry) /\ Len(entry') = New
           /\ DOMAIN entry' = DOMAIN entry \union {New} /\ New \notin DOMAIN entry
           /\ \A i \in DOMAIN entry : /\ entry'[i].callback = entry[i].callback
                                      /\ entry'[i].watchers = entry[i].watchers
                                      /\ entry'[i].parent = entry[i].parent
                                      /\ i # p => entry'[i].child_callbacks = entry[i].child_callbacks
           /\ entry'[p].child_callbacks = D
           /\ entry'[New] = FileWatcherEntry(c, w, p)
<1>1. p \in DOMAIN entry /\ p \in Nat
  BY DEF fwTypeOK, WithPatterns
<1>2. FileWatcherEntry(c, w, p) \in Entry
  BY <1>1 DEF FileWatcherEntry, Entry
<1>3. /\ t \in Seq(Entry) /\ Len(t) = Len(entry) /\ DOMAIN t = DOMAIN entry
      /\ \A i \in DOMAIN entry : /\ t[i].callback = entry[i].callback
                                 /\ t[i].watchers = entry[i].watchers
                                 /\ t[i].parent = entry[i].parent
                                 /\ t[i].child_callbacks = IF i = p THEN D ELSE entry[i].child_callbacks
  BY <1>1, Children DEF fwTypeOK
<1>4. /\ entry' \in Seq(Entry) /\ Len(entry') = Len(t) + 1
      /\ DOMAIN entry' = DOMAIN t \union {Len(t) + 1} /\ Len(t) + 1 \notin DOMAIN t
      /\ \A i \in DOMAIN t : entry'[i] = t[i]
      /\ entry'[Len(t) + 1] = FileWatcherEntry(c, w, p)
  <2>1. t \in Seq(Entry)
    BY <1>3
  <2>. QED BY <1>2, <2>1, Appending
<1>. QED BY <1>1, <1>3, <1>4 DEF New

LEMMA AddedFirst ==
    ASSUME fwTypeOK, NEW c \in Callbacks, NEW w \in Patterns, add_first(c, w)
    PROVE  /\ entry' \in Seq(Entry) /\ Len(entry') = New
           /\ DOMAIN entry' = DOMAIN entry \union {New} /\ New \notin DOMAIN entry
           /\ \A i \in DOMAIN entry : entry'[i] = entry[i]
           /\ entry'[New] = FileWatcherEntry(c, w, NoEntry)
<1>1. FileWatcherEntry(c, w, NoEntry) \in Entry
  BY DEF FileWatcherEntry, Entry, NoEntry
<1>. QED BY <1>1, Appending DEF add_first, New, fwTypeOK

\* Removing a child takes its callback from its parent's.
LEMMA RemovedChild ==
    ASSUME fwTypeOK, NEW e \in DOMAIN entry, remove_child(e)
    PROVE  /\ entry[e].parent \in DOMAIN entry
           /\ entry' \in Seq(Entry) /\ Len(entry') = Len(entry) /\ DOMAIN entry' = DOMAIN entry
           /\ \A i \in DOMAIN entry :
                /\ entry'[i].callback = entry[i].callback
                /\ entry'[i].watchers = entry[i].watchers
                /\ entry'[i].parent = entry[i].parent
                /\ entry'[i].child_callbacks = IF i = entry[e].parent
                                               THEN entry[i].child_callbacks \ {entry[e].callback}
                                               ELSE entry[i].child_callbacks
<1>1. entry[e].parent \in DOMAIN entry
  BY DEF fwTypeOK, remove_child
<1> DEFINE p == entry[e].parent
           C == entry[p].child_callbacks \ {entry[e].callback}
<1>2. C \in SUBSET Callbacks
  <2>1. entry[p] \in Entry
    BY <1>1 DEF fwTypeOK
  <2>. QED BY <2>1 DEF Entry
<1>3. entry' = WithChildren(entry, p, C)
  BY <1>1 DEF remove_child, WithChildren
<1> HIDE DEF C
<1>4. /\ entry' \in Seq(Entry) /\ Len(entry') = Len(entry) /\ DOMAIN entry' = DOMAIN entry
      /\ \A i \in DOMAIN entry :
           /\ entry'[i].callback = entry[i].callback
           /\ entry'[i].watchers = entry[i].watchers
           /\ entry'[i].parent = entry[i].parent
           /\ entry'[i].child_callbacks = IF i = p THEN C ELSE entry[i].child_callbacks
  <2>1. entry \in Seq(Entry)
    BY DEF fwTypeOK
  <2> HIDE DEF p
  <2>. QED BY <1>1, <1>2, <1>3, <2>1, Children DEF p
<1>. QED BY <1>1, <1>4 DEF C

-----------------------------------------------------------------------------

LEMMA InitInv == fwInit => fwTypeOK /\ WaitingInv /\ WatchersInv
<1>. SUFFICES ASSUME fwInit PROVE fwTypeOK /\ WaitingInv /\ WatchersInv
  OBVIOUS
<1>1. entry \in Seq(Entry) /\ Len(entry) = 0 /\ DOMAIN entry = {}
  BY DEF fwInit
<1>. QED BY <1>1, WatchersAssumption DEF fwInit, fwTypeOK, WaitingInv, WatchersInv

LEMMA AddChild ==
    ASSUME fwTypeOK, WaitingInv, WatchersInv, NEW c \in Callbacks, NEW w \in Patterns,
           Len(entry) < MaxWatchers, add_child(c, w), UNCHANGED <<registered, silenced>>
    PROVE  fwTypeOK' /\ WaitingInv' /\ WatchersInv'
<1>0. PICK n : n = New
  OBVIOUS
<1> DEFINE added == IF c \in listeners THEN {} ELSE {c}
<1>1. PICK p \in WithPatterns(w) :
        LET D == entry[p].child_callbacks \union added IN
        /\ entry' = Append([entry EXCEPT ![p].child_callbacks = D], FileWatcherEntry(c, w, p))
        /\ listeners' = listeners \union (IF D = {} THEN {} ELSE {p})
        /\ _file_watchers' = _file_watchers \union {New}
        /\ unwatched' = unwatched \union (IF p \in unwatched THEN {New} ELSE {})
        /\ UNCHANGED asked
  BY DEF add_child
<1> DEFINE D == entry[p].child_callbacks \union added
<1>2. p \in _file_watchers /\ p \in DOMAIN entry /\ entry[p].watchers = w /\ p \in Nat \ {0}
  BY DEF WithPatterns, fwTypeOK
<1>3. entry[p] \in Entry
  BY <1>2 DEF fwTypeOK
<1>4. D \in SUBSET Callbacks
  BY <1>3 DEF Entry
<1> HIDE DEF D
<1>5. /\ entry' \in Seq(Entry) /\ Len(entry') = n
      /\ DOMAIN entry' = DOMAIN entry \union {n} /\ n \notin DOMAIN entry
      /\ \A i \in DOMAIN entry : /\ entry'[i].callback = entry[i].callback
                                 /\ entry'[i].watchers = entry[i].watchers
                                 /\ entry'[i].parent = entry[i].parent
                                 /\ i # p => entry'[i].child_callbacks = entry[i].child_callbacks
      /\ entry'[p].child_callbacks = D
      /\ entry'[n] = FileWatcherEntry(c, w, p)
  <2>1. entry' = Append(WithChildren(entry, p, D), FileWatcherEntry(c, w, p))
    BY <1>1 DEF WithChildren, D
  <2>. QED BY ONLY <1>0, <1>4, <2>1, Added, fwTypeOK, p \in WithPatterns(w), Len(entry) < MaxWatchers
<1>6. /\ entry'[n].callback = c /\ entry'[n].watchers = w /\ entry'[n].parent = p
  BY <1>5 DEF FileWatcherEntry
<1>7. fwTypeOK'
  <2>1. Len(entry') <= MaxWatchers
    BY <1>0, <1>5, WatchersAssumption DEF New, fwTypeOK
  <2>2. \A e \in DOMAIN entry' : entry'[e].parent \in DOMAIN entry' \union {NoEntry}
    BY <1>2, <1>5, <1>6 DEF fwTypeOK
  <2>3. listeners' \subseteq Callbacks \union DOMAIN entry'
    BY <1>1, <1>2, <1>5 DEF fwTypeOK
  <2>4. _file_watchers' = _file_watchers \union {n} /\ asked' = asked /\ registered' = registered
    BY <1>0, <1>1
  <2>. QED BY <1>5, <2>1, <2>2, <2>3, <2>4 DEF fwTypeOK
<1>8. \A i \in DOMAIN entry : entry[i].child_callbacks \subseteq entry'[i].child_callbacks
  BY <1>5 DEF D
<1>9. ASSUME NEW x \in DOMAIN entry, Reached(x) PROVE Reached(x)'
  BY <1>1, <1>5, <1>8, <1>9 DEF Reached, fwTypeOK, NoEntry
<1>10. Reached(n)'
  <2>1. CASE c \in listeners
    BY <1>1, <1>6, <2>1 DEF Reached
  <2>2. CASE c \notin listeners
    <3>1. c \in D
      BY <2>2 DEF D
    <3>2. p \in listeners'
      BY <1>1, <3>1 DEF D
    <3>. QED BY <1>2, <1>5, <1>6, <3>1, <3>2 DEF Reached, NoEntry
  <2>. QED BY <2>1, <2>2
<1>11. ASSUME NEW x \in DOMAIN entry, Watched(x) PROVE Watched(x)'
  <2>1. PICK y \in registered \ asked : entry[y].watchers = entry[x].watchers
    BY <1>11 DEF Watched
  <2>2. y \in DOMAIN entry /\ y \in registered' \ asked'
    BY <1>1 DEF fwTypeOK
  <2>. QED BY <1>5, <2>1, <2>2 DEF Watched
<1>12. n \in unwatched' \/ Watched(n)'
  <2>1. CASE p \in unwatched
    BY <1>0, <1>1, <2>1
  <2>2. CASE Watched(p)
    BY <1>2, <1>5, <1>6, <1>11, <2>2 DEF Watched
  <2>. QED BY <1>2, <2>1, <2>2 DEF WatchersInv
<1>13. WatchersInv'
  <2>1. ASSUME NEW x \in _file_watchers' \union (asked' \ registered')
        PROVE x \in silenced' \/ Reached(x)'
    BY <1>0, <1>1, <1>9, <1>10, <2>1 DEF WatchersInv, fwTypeOK
  <2>2. ASSUME NEW x \in _file_watchers' PROVE x \in unwatched' \/ Watched(x)'
    BY <1>0, <1>1, <1>11, <1>12, <2>2 DEF WatchersInv, fwTypeOK
  <2>. QED BY <2>1, <2>2 DEF WatchersInv
<1>14. WaitingInv'
  BY <1>0, <1>1, <1>2, <1>5, <1>6 DEF WaitingInv, fwTypeOK, NoEntry
<1>. QED BY <1>7, <1>13, <1>14

LEMMA AddFirst ==
    ASSUME fwTypeOK, WaitingInv, WatchersInv, NEW c \in Callbacks, NEW w \in Patterns,
           Len(entry) < MaxWatchers, add_first(c, w), UNCHANGED <<registered, silenced>>
    PROVE  fwTypeOK' /\ WaitingInv' /\ WatchersInv'
<1>0. PICK n : n = New
  OBVIOUS
<1>1. /\ entry' \in Seq(Entry) /\ Len(entry') = n
      /\ DOMAIN entry' = DOMAIN entry \union {n} /\ n \notin DOMAIN entry
      /\ \A i \in DOMAIN entry : entry'[i] = entry[i]
      /\ entry'[n].callback = c /\ entry'[n].parent = NoEntry
  <2>1. /\ entry' \in Seq(Entry) /\ Len(entry') = n
        /\ DOMAIN entry' = DOMAIN entry \union {n} /\ n \notin DOMAIN entry
        /\ \A i \in DOMAIN entry : entry'[i] = entry[i]
        /\ entry'[n] = FileWatcherEntry(c, w, NoEntry)
    BY <1>0, AddedFirst
  <2>2. entry'[n].callback = c /\ entry'[n].parent = NoEntry
    BY <2>1 DEF FileWatcherEntry
  <2>. QED BY <2>1, <2>2
<1>2. fwTypeOK'
  <2>1. Len(entry') <= MaxWatchers
    BY <1>0, <1>1, WatchersAssumption DEF New, fwTypeOK
  <2>2. /\ _file_watchers' = _file_watchers /\ asked' = asked \union {n}
        /\ registered' = registered /\ listeners' = listeners \union {c}
    BY <1>0 DEF add_first
  <2>3. \A e \in DOMAIN entry' : entry'[e].parent \in DOMAIN entry' \union {NoEntry}
    BY <1>1 DEF fwTypeOK
  <2>. QED BY <1>1, <2>1, <2>2, <2>3 DEF fwTypeOK
<1>3. ASSUME NEW x \in DOMAIN entry, Reached(x) PROVE Reached(x)'
  BY <1>1, <1>3 DEF Reached, fwTypeOK, add_first, NoEntry
<1>4. Reached(n)'
  BY <1>1 DEF Reached, add_first
<1>5. ASSUME NEW x \in _file_watchers, Watched(x) PROVE Watched(x)'
  <2>1. PICK y \in registered \ asked : entry[y].watchers = entry[x].watchers
    BY <1>5 DEF Watched
  <2>2. y \in DOMAIN entry /\ y # n /\ y \in registered' \ asked'
    BY <1>0, <1>1 DEF fwTypeOK, add_first
  <2>. QED BY <1>1, <2>1, <2>2 DEF Watched, fwTypeOK
<1>6. WatchersInv'
  <2>1. ASSUME NEW x \in _file_watchers' \union (asked' \ registered')
        PROVE x \in silenced' \/ Reached(x)'
    BY <1>0, <1>3, <1>4, <2>1 DEF WatchersInv, fwTypeOK, add_first
  <2>. QED BY <1>5, <2>1 DEF WatchersInv, add_first
<1>7. WaitingInv'
  BY <1>0, <1>1 DEF WaitingInv, fwTypeOK, add_first
<1>. QED BY <1>2, <1>6, <1>7

LEMMA Register ==
    ASSUME fwTypeOK, WaitingInv, WatchersInv, NEW e, register_capability(e)
    PROVE  fwTypeOK' /\ WaitingInv' /\ WatchersInv'
<1>1. e \in DOMAIN entry /\ e \in asked \ registered
  BY DEF fwTypeOK, register_capability
<1>2. fwTypeOK'
  BY <1>1 DEF fwTypeOK, register_capability
<1>3. ASSUME NEW x \in _file_watchers' \union (asked' \ registered')
      PROVE  x \in silenced' \/ Reached(x)'
  BY <1>1, <1>3 DEF WatchersInv, Reached, register_capability
<1>4. ASSUME NEW x \in _file_watchers' PROVE x \in unwatched' \/ Watched(x)'
  <2>1. CASE x = e
    BY <1>1, <2>1 DEF Watched, register_capability
  <2>2. CASE x # e
    BY <1>1, <1>4, <2>2 DEF WatchersInv, Watched, register_capability
  <2>. QED BY <2>1, <2>2
<1>5. WaitingInv'
  BY <1>1 DEF WaitingInv, register_capability
<1>. QED BY <1>2, <1>3, <1>4, <1>5 DEF WatchersInv

LEMMA Unregister ==
    ASSUME fwTypeOK, WaitingInv, WatchersInv, NEW e, unregister_capability(e)
    PROVE  fwTypeOK' /\ WaitingInv' /\ WatchersInv'
<1>1. e \in asked \intersect registered
  BY DEF unregister_capability
<1>2. fwTypeOK'
  BY DEF fwTypeOK, unregister_capability
<1>3. ASSUME NEW x \in _file_watchers' \union (asked' \ registered')
      PROVE  x \in silenced' \/ Reached(x)'
  BY <1>1, <1>3 DEF WatchersInv, Reached, unregister_capability
<1>4. ASSUME NEW x \in _file_watchers' PROVE x \in unwatched' \/ Watched(x)'
  BY <1>1, <1>4 DEF WatchersInv, Watched, unregister_capability
<1>5. WaitingInv'
  BY <1>1 DEF WaitingInv, unregister_capability
<1>. QED BY <1>2, <1>3, <1>4, <1>5 DEF WatchersInv

LEMMA RemoveChild ==
    ASSUME fwTypeOK, WaitingInv, WatchersInv, NEW e,
           remove_file_watcher_entry(e), remove_child(e)
    PROVE  fwTypeOK' /\ WaitingInv' /\ WatchersInv'
<1>1. e \in DOMAIN entry
  BY DEF remove_file_watcher_entry, fwTypeOK
<1> DEFINE p == entry[e].parent
<1>2. /\ p \in DOMAIN entry
      /\ entry' \in Seq(Entry) /\ Len(entry') = Len(entry) /\ DOMAIN entry' = DOMAIN entry
      /\ \A i \in DOMAIN entry :
           /\ entry'[i].callback = entry[i].callback
           /\ entry'[i].watchers = entry[i].watchers
           /\ entry'[i].parent = entry[i].parent
           /\ entry'[i].child_callbacks = IF i = p
                                          THEN entry[i].child_callbacks \ {entry[e].callback}
                                          ELSE entry[i].child_callbacks
  BY <1>1, RemovedChild
<1>3. /\ p # NoEntry /\ asked' = asked /\ registered' = registered
      /\ _file_watchers' = _file_watchers \ {e}
      /\ listeners' = listeners \ (IF entry[e].child_callbacks = {} THEN {e} ELSE {})
      /\ silenced' = silenced \union LosesCallback(e)
      /\ unwatched' = unwatched \union LosesRegistration(e)
  BY DEF remove_file_watcher_entry, remove_child
<1> HIDE DEF p
<1>4. fwTypeOK'
  BY <1>1, <1>2, <1>3 DEF fwTypeOK
<1>5. ASSUME NEW x \in _file_watchers' \union (asked' \ registered')
      PROVE  x \in silenced' \/ Reached(x)'
  <2>1. /\ x \in DOMAIN entry /\ (x \in silenced \/ Reached(x))
        /\ x \in (_file_watchers \union asked) \ {e}
    BY <1>3, <1>5 DEF WatchersInv, fwTypeOK, WaitingInv, remove_file_watcher_entry
  <2>2. CASE x \in silenced
    BY <1>3, <2>2
  <2>3. CASE entry[x].callback \in listeners
    \* A callback is not e.
    <3>1. entry[x] \in Entry /\ e \in Nat
      BY <1>1, <2>1 DEF fwTypeOK
    <3>2. entry[x].callback \in listeners'
      BY <1>3, <2>3, <3>1, WatchersAssumption DEF Entry
    <3>. QED BY <1>2, <2>1, <3>2 DEF Reached
  <2>4. CASE /\ entry[x].parent # NoEntry /\ entry[x].parent \in listeners
             /\ entry[x].callback \in entry[entry[x].parent].child_callbacks
    <3>1. entry[x].parent \in DOMAIN entry
      BY <2>1, <2>4 DEF fwTypeOK
    \* Its parent has e's callback too, or has it no more.
    <3>2. CASE entry[x].parent = p /\ entry[x].callback = entry[e].callback
      <4>1. x \in LosesCallback(e)
        BY <1>3, <2>1, <3>2 DEF LosesCallback, Reaches, p
      <4>. QED BY <1>3, <4>1
    <3>3. CASE ~(entry[x].parent = p /\ entry[x].callback = entry[e].callback)
      <4>1. entry[x].parent \in listeners'
        BY <1>3, <2>4
      <4>2. entry[x].callback \in entry'[entry[x].parent].child_callbacks
        BY <1>2, <2>4, <3>1, <3>3
      <4>. QED BY <1>2, <2>1, <2>4, <4>1, <4>2 DEF Reached
    <3>. QED BY <3>2, <3>3
  <2>. QED BY <2>1, <2>2, <2>3, <2>4 DEF Reached
<1>6. ASSUME NEW x \in _file_watchers' PROVE x \in unwatched' \/ Watched(x)'
  <2>1. x \in DOMAIN entry /\ (x \in unwatched \/ Watched(x))
    BY <1>3, <1>6 DEF WatchersInv, fwTypeOK
  <2>2. ASSUME Watched(x) PROVE Watched(x)'
    <3>1. PICK y \in registered \ asked : entry[y].watchers = entry[x].watchers
      BY <2>2 DEF Watched
    <3>2. y \in DOMAIN entry /\ y \in registered' \ asked'
      BY <1>3 DEF fwTypeOK
    <3>. QED BY <1>2, <2>1, <3>1, <3>2 DEF Watched
  <2>. QED BY <1>3, <2>1, <2>2
<1>7. WaitingInv'
  BY <1>2, <1>3 DEF WaitingInv, fwTypeOK
<1>. QED BY <1>4, <1>5, <1>6, <1>7 DEF WatchersInv

LEMMA RemoveFirst ==
    ASSUME fwTypeOK, WaitingInv, WatchersInv, NEW e,
           remove_file_watcher_entry(e), remove_first(e)
    PROVE  fwTypeOK' /\ WaitingInv' /\ WatchersInv'
<1>1. e \in DOMAIN entry /\ e \in _file_watchers
  BY DEF remove_file_watcher_entry, fwTypeOK
<1>2. /\ entry' = entry /\ registered' = registered /\ entry[e].parent = NoEntry
      /\ _file_watchers' = _file_watchers \ {e}
      /\ silenced' = silenced \union LosesCallback(e)
      /\ unwatched' = unwatched \union LosesRegistration(e)
  BY DEF remove_file_watcher_entry, remove_first
<1>3. CASE KeepsServing(e)
  <2>1. listeners' = listeners /\ asked' = asked
    BY <1>3 DEF remove_first
  <2>. QED BY <1>2, <2>1 DEF fwTypeOK, WaitingInv, WatchersInv, Reached, Watched
<1>4. CASE ~KeepsServing(e)
  <2>1. /\ listeners' = listeners \ {entry[e].callback} /\ asked' = asked \union {e}
        /\ entry[e].child_callbacks = {}
    BY <1>4 DEF remove_first, KeepsServing
  <2>2. fwTypeOK'
    BY <1>1, <1>2, <2>1 DEF fwTypeOK
  <2>3. ASSUME NEW x \in _file_watchers' \union (asked' \ registered')
        PROVE  x \in silenced' \/ Reached(x)'
    <3>1. /\ x \in DOMAIN entry /\ (x \in silenced \/ Reached(x))
          /\ x \in (_file_watchers \union asked) \ {e}
      BY <1>1, <1>2, <2>1, <2>3 DEF WatchersInv, fwTypeOK, WaitingInv
    <3>2. CASE x \in silenced
      BY <1>2, <3>2
    <3>3. CASE entry[x].callback = entry[e].callback
      <4>1. x \in LosesCallback(e)
        BY <1>2, <2>1, <3>1, <3>3 DEF LosesCallback, Reaches
      <4>. QED BY <1>2, <4>1
    <3>4. CASE entry[x].callback # entry[e].callback /\ Reached(x)
      \* A callback is not the number of an entry.
      <4>1. entry[e] \in Entry /\ entry[x] \in Entry
        BY <1>1, <3>1 DEF fwTypeOK
      <4>2. entry[x].parent # entry[e].callback
        BY <4>1, WatchersAssumption DEF Entry
      <4>. QED BY <1>2, <2>1, <3>4, <4>2 DEF Reached
    <3>. QED BY <3>1, <3>2, <3>3, <3>4
  <2>4. ASSUME NEW x \in _file_watchers' PROVE x \in unwatched' \/ Watched(x)'
    <3>1. x \in _file_watchers /\ x # e
      BY <1>2, <2>4
    <3>2. CASE entry[x].watchers = entry[e].watchers
      <4>1. x \in LosesRegistration(e)
        BY <1>2, <2>1, <3>1, <3>2 DEF LosesRegistration, WithPatterns
      <4>. QED BY <1>2, <4>1
    <3>3. CASE entry[x].watchers # entry[e].watchers
      BY <1>2, <2>1, <3>1, <3>3 DEF WatchersInv, Watched
    <3>. QED BY <3>2, <3>3
  <2>5. WaitingInv'
    BY <1>2, <2>1 DEF WaitingInv
  <2>. QED BY <2>2, <2>3, <2>4, <2>5 DEF WatchersInv
<1>. QED BY <1>3, <1>4

-----------------------------------------------------------------------------

LEMMA NextInv == fwTypeOK /\ WaitingInv /\ WatchersInv /\ [fwNext]_fwVars => fwTypeOK' /\ WaitingInv' /\ WatchersInv'
<1>. SUFFICES ASSUME fwTypeOK, WaitingInv, WatchersInv, [fwNext]_fwVars
              PROVE  fwTypeOK' /\ WaitingInv' /\ WatchersInv'
  OBVIOUS
<1>1. ASSUME NEW c \in Callbacks, NEW w \in Patterns, add_file_watchers(c, w)
      PROVE  fwTypeOK' /\ WaitingInv' /\ WatchersInv'
  BY <1>1, AddChild, AddFirst DEF add_file_watchers
<1>2. ASSUME NEW e \in FileWatcherEntries, register_capability(e) PROVE fwTypeOK' /\ WaitingInv' /\ WatchersInv'
  BY <1>2, Register
<1>3. ASSUME NEW e \in FileWatcherEntries, remove_file_watcher_entry(e) PROVE fwTypeOK' /\ WaitingInv' /\ WatchersInv'
  <2>1. remove_child(e) \/ remove_first(e)
    BY <1>3 DEF remove_file_watcher_entry
  <2>. QED BY <1>3, <2>1, RemoveChild, RemoveFirst
<1>4. ASSUME NEW e \in FileWatcherEntries, unregister_capability(e) PROVE fwTypeOK' /\ WaitingInv' /\ WatchersInv'
  BY <1>4, Unregister
<1>5. CASE UNCHANGED fwVars
  BY <1>5 DEF fwVars, fwTypeOK, WaitingInv, WatchersInv, Reached, Watched
<1>. QED BY <1>1, <1>2, <1>3, <1>4, <1>5 DEF fwNext

\* For any number of callbacks, patterns and entries the variables keep their types:
\* what the sets of Workspace hold are entries that were made.
THEOREM WatchersKeepTypes == fwSpec => []fwTypeOK
<1>1. fwTypeOK /\ WaitingInv /\ WatchersInv /\ [fwNext]_fwVars => (fwTypeOK /\ WaitingInv /\ WatchersInv)'
  BY NextInv
<1>. QED BY <1>1, InitInv, PTL DEF fwSpec

LEMMA Told == fwTypeOK /\ WatchersInv => WatchersAreTold
<1>. SUFFICES ASSUME fwTypeOK, WatchersInv PROVE WatchersAreTold
  OBVIOUS
<1>1. ASSUME NEW e \in _file_watchers, Reached(e) PROVE entry[e].callback \in Called
  <2>1. e \in DOMAIN entry /\ entry[e] \in Entry
    BY DEF fwTypeOK
  <2>2. CASE entry[e].callback \in listeners
    BY <2>1, <2>2 DEF Called, Entry
  <2>3. CASE /\ entry[e].parent # NoEntry /\ entry[e].parent \in listeners
             /\ entry[e].callback \in entry[entry[e].parent].child_callbacks
    <3>1. entry[e].parent \in 1 .. Len(entry) /\ Len(entry) \in Nat /\ Len(entry) <= MaxWatchers
      BY <2>1, <2>3 DEF fwTypeOK
    <3>2. entry[e].parent \in listeners \intersect FileWatcherEntries
      BY <2>3, <3>1, WatchersAssumption DEF FileWatcherEntries
    <3>. QED BY <2>3, <3>2 DEF Called, call_childrens
  <2>. QED BY <1>1, <2>2, <2>3 DEF Reached
<1>2. ASSUME NEW e \in _file_watchers
      PROVE  /\ e \in silenced \/ entry[e].callback \in Called
             /\ e \in unwatched \/ \E x \in registered : entry[x].watchers = entry[e].watchers
  BY <1>1 DEF WatchersInv, Watched
<1>. QED BY <1>2 DEF WatchersAreTold

\* Whoever watches files is told of their changes: the client reports them and the
\* callback is called, unless the removal of another entry took one of the two.
THEOREM WatchersAreServed == fwSpec => []WatchersAreTold
<1>1. fwTypeOK /\ WaitingInv /\ WatchersInv /\ [fwNext]_fwVars => (fwTypeOK /\ WaitingInv /\ WatchersInv)'
  BY NextInv
<1>. QED BY <1>1, InitInv, Told, PTL DEF fwSpec

-----------------------------------------------------------------------------
(* Diagnostics.                                                            *)


(* A task that collects, and a handler that closes, has a document.        *)
Linked ==
  /\ \A e \in Entries : task[e] = "collecting" => doc[e] \in Docs
  /\ \A i \in Closings : closing[i] # "none" => closes[i] \in Docs

OneEntry == \A e, f \in running : e = f

IInv == TypeOK /\ Linked /\ OneEntry /\ NoOrphans /\ OnePublishes

Diag == [Collectors -> Texts \cup {-1}]

USE DiagnosticsAssumption

LEMMA Zero == 0 \in 0 .. MaxOpen /\ 0 \in Texts /\ 0 \in 0 .. MaxRestart /\ NoDiagnostics \in Diag
BY DEF Texts, Diag, NoDiagnostics

LEMMA InitIInv == Init => IInv
<1>. SUFFICES ASSUME Init PROVE IInv
  OBVIOUS
<1>1. /\ shown \in Diag /\ stored \in [Docs -> Diag] /\ diagnostics \in [Entries -> Diag]
  BY Zero DEF Init
<1>2. TypeOK
  BY Zero, <1>1 DEF Init, TypeOK, Diag
<1>3. Linked /\ OneEntry /\ NoOrphans /\ OnePublishes
  BY DEF Init, Linked, OneEntry, NoOrphans, OnePublishes
<1>. QED BY <1>2, <1>3 DEF IInv

-----------------------------------------------------------------------------
(* The notifications change nothing of an entry.                           *)
LEMMA NotificationIInv ==
  ASSUME IInv, did_open \/ did_change \/ restart \/ did_close
  PROVE  IInv'
<1>1. UNCHANGED <<shown, running, data, entries, publishing>>
  BY DEF did_open, did_change, restart, did_close
<1>2. /\ open' \in BOOLEAN /\ opened' \in 0 .. MaxOpen /\ text' \in Texts
      /\ restarts' \in 0 .. MaxRestart /\ shut' \in BOOLEAN
      /\ document' \in 0 .. MaxOpen /\ text_of' \in [Docs -> Texts] /\ references' \subseteq Docs
      /\ to_start' \in Nat
      /\ closing' \in [Closings -> {"none", "listeners", "close_document"}]
      /\ closes' \in [Closings -> 0 .. MaxOpen]
      /\ \A i \in Closings : closing'[i] # "none" => closes'[i] \in Docs
  <2>1. CASE did_open
    <3>1. PICK t \in text .. MaxText, d \in Docs :
            /\ text' = t /\ document' = d /\ text_of' = [text_of EXCEPT ![d] = t]
            /\ references' = references \cup {d}
      BY <2>1 DEF did_open
    <3>2. t \in Texts
      BY DEF IInv, TypeOK, Texts
    <3>3. opened' \in 0 .. MaxOpen
      BY <2>1 DEF did_open, IInv, TypeOK
    <3>. QED BY <2>1, <3>1, <3>2, <3>3 DEF did_open, IInv, TypeOK, Linked, Docs
  <2>2. CASE did_change
    <3>1. text' \in Texts
      BY <2>2 DEF did_change, IInv, TypeOK, Texts
    <3>2. text_of' \in [Docs -> Texts] /\ to_start' \in Nat
      BY <2>2, <3>1 DEF did_change, IInv, TypeOK
    <3>3. UNCHANGED <<open, opened, restarts, shut, document, references, closing, closes>>
      BY <2>2 DEF did_change
    <3>. QED BY <3>1, <3>2, <3>3 DEF IInv, TypeOK, Linked
  <2>3. CASE restart
    BY <2>3 DEF restart, IInv, TypeOK, Linked, documents
  <2>4. CASE did_close
    <3>1. document # 0 => document \in Docs
      BY DEF IInv, TypeOK, Docs
    <3>. QED BY <2>4, <3>1 DEF did_close, IInv, TypeOK, Linked
  <2>. QED BY <2>1, <2>2, <2>3, <2>4
<1>. QED BY <1>1, <1>2
     DEF IInv, TypeOK, Linked, OneEntry, NoOrphans, OnePublishes, data, entries, publishing

(* The entry of the document is cancelled and perhaps replaced.            *)
LEMMA CancelIInv ==
  ASSUME IInv, NEW new \in SUBSET Unused, \A e, f \in new : e = f,
         running' = new, CancelAndArm(running, new), UNCHANGED task
  PROVE  /\ running' \subseteq Entries /\ timer' \subseteq Entries /\ cancelling' \subseteq Entries
         /\ OneEntry' /\ NoOrphans' /\ OnePublishes'
BY DEF CancelAndArm, Unused, IInv, TypeOK, OneEntry, NoOrphans, OnePublishes

LEMMA ListenerIInv ==
  ASSUME IInv,
         start_publish_diagnostics_task \/ cancel_all_tasks \/ \E i \in Closings : on_did_close(i)
  PROVE  IInv'
<1>1. PICK new \in SUBSET Unused :
        (\A e, f \in new : e = f) /\ running' = new /\ CancelAndArm(running, new)
  BY DEF start_publish_diagnostics_task, cancel_all_tasks, on_did_close
<1>2. UNCHANGED <<open, opened, text, restarts, shown, documents, closes, data, task, publishing>>
  BY DEF start_publish_diagnostics_task, cancel_all_tasks, on_did_close, client, handlers
<1>3. /\ running' \subseteq Entries /\ timer' \subseteq Entries /\ cancelling' \subseteq Entries
      /\ OneEntry' /\ NoOrphans' /\ OnePublishes'
  BY <1>1, <1>2, CancelIInv
<1>4. /\ to_start' \in Nat /\ shut' \in BOOLEAN
      /\ closing' \in [Closings -> {"none", "listeners", "close_document"}]
      /\ \A i \in Closings : closing'[i] # "none" => closing[i] # "none"
  <2>1. CASE start_publish_diagnostics_task
    BY <2>1 DEF start_publish_diagnostics_task, client, IInv, TypeOK
  <2>2. CASE cancel_all_tasks
    BY <2>2 DEF cancel_all_tasks, handlers, IInv, TypeOK
  <2>3. CASE \E i \in Closings : on_did_close(i)
    BY <2>3 DEF on_did_close, client, IInv, TypeOK
  <2>. QED BY <2>1, <2>2, <2>3
<1>. QED BY <1>2, <1>3, <1>4 DEF IInv, TypeOK, Linked, documents, data, publishing

LEMMA CloseIInv ==
  ASSUME IInv, NEW i \in Closings, close_document(i)
  PROVE  IInv'
<1>1. UNCHANGED <<client, shown, text_of, references, to_start, running, entries, publishing>>
  BY DEF close_document
<1>2. document' \in 0 .. MaxOpen /\ stored' \in [Docs -> Diag] /\ has_data' \subseteq Docs
  BY Zero DEF close_document, CloseUnreferenced, Close, IInv, TypeOK, data, Diag
<1>3. /\ closing' \in [Closings -> {"none", "listeners", "close_document"}]
      /\ closes' \in [Closings -> 0 .. MaxOpen]
      /\ \A j \in Closings : closing'[j] # "none" => closes'[j] \in Docs
  BY Zero DEF close_document, IInv, TypeOK, Linked
<1>. QED BY <1>1, <1>2, <1>3
     DEF IInv, TypeOK, Linked, OneEntry, NoOrphans, OnePublishes, client, entries, publishing, Diag

-----------------------------------------------------------------------------
(* A timer fires: whatever works is the entry of the document, which is    *)
(* the one that fires and does not work yet.                               *)
LEMMA CreateIInv ==
  ASSUME IInv, NEW e \in Entries, create_task(e)
  PROVE  IInv'
<1>1. UNCHANGED <<client, shown, documents, handlers, running, data, cancelling, publishing>>
  BY DEF create_task
<1>2. e \in running /\ cancelling = {} /\ task' = [task EXCEPT ![e] = "created"] /\ timer' = timer \ {e}
  BY DEF create_task, IInv, NoOrphans
<1>3. \A f \in Entries : task'[f] # "none" => f = e
  BY <1>2 DEF IInv, TypeOK, NoOrphans, OneEntry
<1>4. OneEntry' /\ NoOrphans' /\ OnePublishes'
  BY <1>1, <1>2, <1>3 DEF IInv, TypeOK, OneEntry, NoOrphans, OnePublishes
<1>. QED BY <1>1, <1>2, <1>4
     DEF IInv, TypeOK, Linked, client, documents, handlers, data, publishing

(* A task ends.                                                            *)
LEMMA EndIInv ==
  ASSUME IInv, NEW e \in Entries, End(e), UNCHANGED <<timer, running>>,
         cancelling' \in SUBSET cancelling, cancelling \subseteq cancelling' \cup {e}
  PROVE  /\ task' \in [Entries -> {"none", "created", "collecting"}]
         /\ doc' \in [Entries -> 0 .. MaxOpen] /\ since' \in [Entries -> Texts]
         /\ todo' \in [Entries -> SUBSET Collectors] /\ failed' \in [Entries -> SUBSET Collectors]
         /\ diagnostics' \in [Entries -> Diag]
         /\ \A f \in Entries : task'[f] = "collecting" => doc'[f] \in Docs
         /\ OneEntry' /\ NoOrphans' /\ OnePublishes'
<1>1. /\ task' \in [Entries -> {"none", "created", "collecting"}]
      /\ doc' \in [Entries -> 0 .. MaxOpen] /\ since' \in [Entries -> Texts]
      /\ todo' \in [Entries -> SUBSET Collectors] /\ failed' \in [Entries -> SUBSET Collectors]
      /\ diagnostics' \in [Entries -> Diag]
  BY Zero DEF End, IInv, TypeOK, Diag
<1>2. \A f \in Entries : task'[f] # "none" => f # e /\ task'[f] = task[f] /\ doc'[f] = doc[f]
  BY DEF End, IInv, TypeOK
<1>. QED BY <1>1, <1>2 DEF IInv, Linked, OneEntry, NoOrphans, OnePublishes

LEMMA CancelTaskIInv ==
  ASSUME IInv, NEW e \in Entries, cancel(e)
  PROVE  IInv'
<1>1. UNCHANGED <<client, shown, documents, handlers, running, data, timer>> /\ End(e)
      /\ cancelling' = cancelling \ {e}
  BY DEF cancel
<1>. QED BY <1>1, EndIInv DEF IInv, TypeOK, Linked, client, documents, handlers, data, Diag

LEMMA PublishIInv ==
  ASSUME IInv, NEW e \in Entries, publish_diagnostics(e)
  PROVE  IInv'
<1>1. UNCHANGED <<client, shown, documents, handlers, running, data, timer, cancelling>>
  BY DEF publish_diagnostics
<1>2. CASE document = 0
  BY <1>1, <1>2, EndIInv
  DEF publish_diagnostics, IInv, TypeOK, Linked, client, documents, handlers, data, Diag
<1>3. CASE document # 0
  <2>1. document \in Docs
    BY <1>3 DEF IInv, TypeOK, Docs
  <2>2. /\ task[e] = "created" /\ task' = [task EXCEPT ![e] = "collecting"]
        /\ doc' = [doc EXCEPT ![e] = document]
        /\ since' = [since EXCEPT ![e] = text_of[document]]
        /\ todo' = [todo EXCEPT ![e] = Collectors]
        /\ failed' = [failed EXCEPT ![e] = {}]
        /\ diagnostics' = [diagnostics EXCEPT ![e] = stored[document]]
    BY <1>3 DEF publish_diagnostics
  <2>3. OneEntry' /\ NoOrphans' /\ OnePublishes'
    BY <1>1, <2>2 DEF IInv, TypeOK, OneEntry, NoOrphans, OnePublishes
  <2>4. TypeOK'
    BY <1>1, <2>1, <2>2 DEF IInv, TypeOK, client, documents, handlers, data
  <2>5. Linked'
    BY <1>1, <2>1, <2>2 DEF IInv, TypeOK, Linked, handlers
  <2>. QED BY <2>3, <2>4, <2>5 DEF IInv
<1>. QED BY <1>2, <1>3

LEMMA CollectIInv ==
  ASSUME IInv, NEW e \in Entries, NEW c \in Collectors, collect(e, c)
  PROVE  IInv'
<1>1. UNCHANGED <<client, documents, handlers, running, has_data, entries, doc, since, failed>>
  BY DEF collect
<1>2. PICK t \in since[e] .. text_of[doc[e]] : diagnostics' = [diagnostics EXCEPT ![e][c] = t]
  BY DEF collect
<1>3. t \in Texts
  <2>1. since[e] \in Texts /\ text_of[doc[e]] \in Texts
    BY DEF collect, IInv, TypeOK, Linked
  <2>. QED BY <2>1 DEF Texts
<1>4. diagnostics' \in [Entries -> Diag]
  BY <1>2, <1>3 DEF IInv, TypeOK, Diag
<1>5. shown' \in Diag /\ stored' \in [Docs -> Diag] /\ todo' \in [Entries -> SUBSET Collectors]
  BY <1>4 DEF collect, IInv, TypeOK, Diag
<1>. QED BY <1>1, <1>4, <1>5
     DEF IInv, TypeOK, Linked, OneEntry, NoOrphans, OnePublishes, client, documents, handlers,
         entries, Diag

LEMMA CollectFailsIInv ==
  ASSUME IInv, NEW e \in Entries, NEW c \in Collectors, collect_fails(e, c)
  PROVE  IInv'
BY DEF collect_fails, IInv, TypeOK, Linked, OneEntry, NoOrphans, OnePublishes, client, documents,
       handlers, data, entries

LEMMA SetDataIInv ==
  ASSUME IInv, NEW e \in Entries, set_data(e)
  PROVE  IInv'
<1>1. UNCHANGED <<client, shown, documents, handlers, running, timer, cancelling>> /\ End(e)
  BY DEF set_data
<1>2. has_data' \subseteq Docs
  BY DEF set_data, IInv, TypeOK, Linked
<1>3. Kept(e) \in Diag
  BY DEF Kept, IInv, TypeOK, Diag
<1>4. stored' \in [Docs -> Diag]
  BY <1>3 DEF set_data, IInv, TypeOK, Diag
<1>. QED BY <1>1, <1>2, <1>4, EndIInv
     DEF IInv, TypeOK, Linked, client, documents, handlers, Diag

-----------------------------------------------------------------------------
LEMMA NextIInv == IInv /\ [Next]_vars => IInv'
<1>. SUFFICES ASSUME IInv, [Next]_vars PROVE IInv'
  OBVIOUS
<1>1. CASE did_open \/ did_change \/ restart \/ did_close
  BY <1>1, NotificationIInv
<1>2. CASE start_publish_diagnostics_task \/ cancel_all_tasks \/ \E i \in Closings : on_did_close(i)
  BY <1>2, ListenerIInv
<1>3. CASE \E i \in Closings : close_document(i)
  BY <1>3, CloseIInv
<1>4. CASE \E e \in Entries : create_task(e)
  BY <1>4, CreateIInv
<1>5. CASE \E e \in Entries : cancel(e)
  BY <1>5, CancelTaskIInv
<1>6. CASE \E e \in Entries : publish_diagnostics(e)
  BY <1>6, PublishIInv
<1>7. CASE \E e \in Entries, c \in Collectors : collect(e, c)
  BY <1>7, CollectIInv
<1>8. CASE \E e \in Entries, c \in Collectors : collect_fails(e, c)
  BY <1>8, CollectFailsIInv
<1>9. CASE \E e \in Entries : set_data(e)
  BY <1>9, SetDataIInv
<1>10. CASE UNCHANGED vars
  BY <1>10 DEF vars, client, documents, handlers, data, entries, publishing,
     IInv, TypeOK, Linked, OneEntry, NoOrphans, OnePublishes
<1>. QED BY <1>1, <1>2, <1>3, <1>4, <1>5, <1>6, <1>7, <1>8, <1>9, <1>10 DEF Next, Closes, Publish

LEMMA Invariance == Spec => []IInv
BY InitIInv, NextIInv, PTL DEF Spec

(* The variables of Diagnostics keep their types.                          *)
THEOREM TypeCorrect == Spec => []TypeOK
<1>1. IInv => TypeOK
  BY DEF IInv
<1>. QED BY <1>1, Invariance, PTL

(* No entry waits or works that is neither the one of the document nor     *)
(* about to be cancelled.                                                  *)
THEOREM NoEntryIsLost == Spec => []NoOrphans
<1>1. IInv => NoOrphans
  BY DEF IInv
<1>. QED BY <1>1, Invariance, PTL

(* Two tasks never publish the diagnostics of a document at once.          *)
THEOREM PublishesAlone == Spec => []OnePublishes
<1>1. IInv => OnePublishes
  BY DEF IInv
<1>. QED BY <1>1, Invariance, PTL

-----------------------------------------------------------------------------
(* If the client waits with opening the document again, an open document   *)
(* is kept however often it is opened: no handler of didClose is in work   *)
(* while it is open.                                                       *)

KInv == IInv /\ OpenIsKept /\ (open => \A i \in Closings : closing[i] = "none")

LEMMA NextKInv ==
  ASSUME ReopenWhileClosing = FALSE
  PROVE  KInv /\ [Next]_vars => KInv'
<1>. SUFFICES ASSUME KInv, [Next]_vars PROVE KInv'
  OBVIOUS
<1>1. IInv'
  BY NextIInv DEF KInv
<1>2. references \subseteq Docs /\ text_of \in [Docs -> Texts]
  BY DEF KInv, IInv, TypeOK
<1>3. 0 \notin Docs
  BY DEF Docs
<1>4. CASE did_open
  BY <1>1, <1>2, <1>4 DEF did_open, KInv, OpenIsKept
<1>5. CASE did_change
  BY <1>1, <1>2, <1>3, <1>5 DEF did_change, KInv, OpenIsKept
<1>6. CASE did_close
  BY <1>1, <1>6 DEF did_close, KInv, OpenIsKept
<1>7. CASE \E i \in Closings : Closes(i)
  <2>1. ~open /\ open' = open
    BY <1>7 DEF Closes, on_did_close, close_document, KInv, client
  <2>. QED BY <1>1, <2>1 DEF KInv, OpenIsKept
<1>8. CASE \/ restart \/ start_publish_diagnostics_task \/ cancel_all_tasks
           \/ \E e \in Entries : Publish(e) \/ cancel(e)
           \/ UNCHANGED vars
  <2>1. UNCHANGED <<open, text, documents, closing>>
    BY <1>8 DEF restart, start_publish_diagnostics_task, cancel_all_tasks, Publish, cancel, create_task,
       publish_diagnostics, collect, collect_fails, set_data, vars, client, handlers
  <2>. QED BY <1>1, <2>1 DEF KInv, OpenIsKept, documents
<1>. QED BY <1>4, <1>5, <1>6, <1>7, <1>8 DEF Next

(* An open document is in the table, with the text of the client.          *)
THEOREM OpenDocumentKept ==
  ASSUME ReopenWhileClosing = FALSE
  PROVE  Spec => []OpenIsKept
<1>1. Init => KInv
  BY InitIInv DEF Init, KInv, OpenIsKept
<1>2. KInv /\ [Next]_vars => KInv'
  BY NextKInv
<1>3. KInv => OpenIsKept
  BY DEF KInv
<1>. QED BY <1>1, <1>2, <1>3, PTL DEF Spec

-----------------------------------------------------------------------------
(* What is shown only grows newer.  No text is newer than the client's; a  *)
(* document in the table has that text; and its data, and what a task is   *)
(* about to send, is empty or no older than what is shown.                 *)
Tracked == document # 0 => document <= opened /\ text_of[document] = text

NoFuture ==
  /\ \A d \in Docs : text_of[d] <= text
  /\ \A c \in Collectors : shown[c] <= text
  /\ \A d \in Docs, c \in Collectors : stored[d][c] <= text

Newer(found, c) == found[c] = -1 \/ found[c] >= shown[c]

DataKept ==
  /\ \A d \in has_data : d <= opened
  /\ \A d \in Docs \ has_data : \A c \in Collectors : stored[d][c] = -1
  /\ document # 0 => \A c \in Collectors : Newer(stored[document], c)

(* A collector that has not answered finds something in a text at least as *)
(* new as what it showed; a document with data is the one worked on.       *)
Collects ==
  \A e \in Entries : task[e] = "collecting" =>
    /\ doc[e] <= opened
    /\ document \in has_data => doc[e] = document
    /\ \A c \in Collectors :
         /\ diagnostics[e][c] <= text
         /\ Newer(diagnostics[e], c)
         /\ c \in todo[e] => shown[c] <= since[e] /\ diagnostics[e][c] <= since[e]

NInv == IInv /\ Tracked /\ NoFuture /\ DataKept /\ Collects

(* Texts are numbers.                                                      *)
LEMMA Numbers ==
  ASSUME IInv
  PROVE  /\ text \in Int /\ opened \in Int
         /\ \A d \in Docs : text_of[d] \in Int
         /\ \A c \in Collectors : shown[c] \in Int
         /\ \A d \in Docs, c \in Collectors : stored[d][c] \in Int
         /\ \A e \in Entries, c \in Collectors : diagnostics[e][c] \in Int
         /\ \A e \in Entries : since[e] \in Int /\ doc[e] \in Int
<1>1. Texts \cup {-1} \subseteq Int /\ Texts \subseteq Int
  BY DEF Texts
<1>2. /\ shown \in [Collectors -> Texts \cup {-1}] /\ text_of \in [Docs -> Texts]
      /\ stored \in [Docs -> [Collectors -> Texts \cup {-1}]]
      /\ diagnostics \in [Entries -> [Collectors -> Texts \cup {-1}]]
      /\ since \in [Entries -> Texts] /\ doc \in [Entries -> 0 .. MaxOpen]
      /\ text \in Texts /\ opened \in 0 .. MaxOpen
  BY DEF IInv, TypeOK
<1>. HIDE DEF Texts
<1>3. \A c \in Collectors : shown[c] \in Int
  BY <1>1, <1>2
<1>4. \A d \in Docs, c \in Collectors : stored[d][c] \in Int
  BY <1>1, <1>2
<1>5. \A e \in Entries, c \in Collectors : diagnostics[e][c] \in Int
  BY <1>1, <1>2
<1>6. \A d \in Docs : text_of[d] \in Int
  BY <1>1, <1>2
<1>7. \A e \in Entries : since[e] \in Int /\ doc[e] \in Int
  <2>1. 0 .. MaxOpen \subseteq Int
    OBVIOUS
  <2>. QED BY <1>1, <1>2, <2>1
<1>8. text \in Int /\ opened \in Int
  BY <1>1, <1>2
<1>. QED BY <1>3, <1>4, <1>5, <1>6, <1>7, <1>8

(* The client's text only changes forward.                                 *)
LEMMA EditNInv ==
  ASSUME NInv, IInv', did_open \/ did_change
  PROVE  NInv'
<1>1. UNCHANGED <<shown, stored, has_data, task, doc, since, todo, diagnostics>>
  BY DEF did_open, did_change, data, entries, publishing
<1>2. /\ text \in Int /\ text' \in Int /\ opened \in Int /\ document \in 0 .. MaxOpen
      /\ text_of \in [Docs -> Texts] /\ has_data \subseteq Docs /\ Texts \subseteq Int
      /\ shown \in [Collectors -> Texts \cup {-1}]
      /\ stored \in [Docs -> [Collectors -> Texts \cup {-1}]]
      /\ diagnostics \in [Entries -> [Collectors -> Texts \cup {-1}]]
      /\ doc \in [Entries -> 0 .. MaxOpen]
  BY DEF NInv, IInv, TypeOK, Texts
<1>3. text <= text' /\ opened <= opened' /\ opened' \in Int /\ text' \in Int
  BY <1>2 DEF did_open, did_change, Texts
<1>4. CASE did_open
  <2>1. PICK t \in text .. MaxText, d \in Docs :
          /\ IF document = 0 THEN d = opened + 1 ELSE d = document
          /\ text' = t /\ document' = d /\ text_of' = [text_of EXCEPT ![d] = t]
    BY <1>4 DEF did_open
  <2>2. d <= opened' /\ opened' = opened + 1
    BY <1>2, <1>4, <2>1 DEF did_open, NInv, Tracked
  <2>3. d \in has_data => d = document
    BY <1>2, <2>1 DEF NInv, DataKept
  <2>4. Tracked'
    BY <1>2, <2>1, <2>2 DEF Tracked
  <2>5. NoFuture'
    <3>1. \A k \in Docs : text_of'[k] <= text'
      BY <1>2, <1>3, <2>1, Numbers DEF NInv, NoFuture
    <3>2. \A c \in Collectors : shown[c] <= text'
      BY <1>3, Numbers DEF NInv, NoFuture
    <3>3. \A k \in Docs, c \in Collectors : stored[k][c] <= text'
      BY <1>3, Numbers DEF NInv, NoFuture
    <3>. QED BY <1>1, <3>1, <3>2, <3>3 DEF NoFuture
  <2>6. DataKept'
    <3>1. \A k \in has_data : k <= opened'
      BY <1>2, <1>3 DEF NInv, DataKept, Docs
    <3>2. \A c \in Collectors : Newer(stored[d], c)
      BY <1>2, <2>1, <2>3 DEF NInv, DataKept, Newer, Docs
    <3>. QED BY <1>1, <2>1, <3>1, <3>2 DEF NInv, DataKept, Newer
  <2>7. Collects'
    <3>. SUFFICES ASSUME NEW e \in Entries, task[e] = "collecting"
                  PROVE  /\ doc[e] <= opened'
                         /\ d \in has_data => doc[e] = d
                         /\ \A c \in Collectors :
                              /\ diagnostics[e][c] <= text'
                              /\ Newer(diagnostics[e], c)
                              /\ c \in todo[e] => shown[c] <= since[e] /\ diagnostics[e][c] <= since[e]
      BY <1>1, <2>1 DEF Collects, Newer
    <3>1. doc[e] <= opened' /\ (d \in has_data => doc[e] = d)
      BY <1>2, <1>3, <2>3 DEF NInv, Collects
    <3>2. \A c \in Collectors : diagnostics[e][c] <= text'
      BY <1>3, Numbers DEF NInv, Collects
    <3>. QED BY <3>1, <3>2 DEF NInv, Collects
  <2>. QED BY <2>4, <2>5, <2>6, <2>7 DEF NInv
<1>5. CASE did_change
  <2>1. /\ text' = text + 1 /\ UNCHANGED <<document, opened>>
        /\ IF document = 0 THEN text_of' = text_of
                           ELSE text_of' = [text_of EXCEPT ![document] = text']
    BY <1>5 DEF did_change
  <2>2. document # 0 => document \in Docs
    BY <1>2 DEF Docs
  <2>3. Tracked'
    BY <1>2, <2>1, <2>2 DEF NInv, Tracked
  <2>4. NoFuture'
    <3>1. \A k \in Docs : text_of'[k] <= text'
      BY <1>2, <1>3, <2>1, <2>2, Numbers DEF NInv, NoFuture
    <3>2. \A c \in Collectors : shown[c] <= text'
      BY <1>3, Numbers DEF NInv, NoFuture
    <3>3. \A k \in Docs, c \in Collectors : stored[k][c] <= text'
      BY <1>3, Numbers DEF NInv, NoFuture
    <3>. QED BY <1>1, <3>1, <3>2, <3>3 DEF NoFuture
  <2>5. DataKept'
    BY <1>1, <2>1 DEF NInv, DataKept, Newer
  <2>6. Collects'
    <3>1. \A e \in Entries, c \in Collectors : task[e] = "collecting" => diagnostics[e][c] <= text'
      BY <1>3, Numbers DEF NInv, Collects
    <3>. QED BY <1>1, <2>1, <3>1 DEF NInv, Collects, Newer
  <2>. QED BY <2>3, <2>4, <2>5, <2>6 DEF NInv
<1>. QED BY <1>4, <1>5

(* Closing and cancelling take away; a task that ends takes nothing along. *)
LEMMA EndNInv ==
  ASSUME NInv, IInv',
         UNCHANGED <<opened, text, text_of, shown, stored, has_data>>,
         document' \in {0, document},
         \A e \in Entries : task'[e] = "collecting" =>
            /\ task[e] = "collecting" /\ UNCHANGED <<doc[e], since[e], diagnostics[e]>>
            /\ todo'[e] \subseteq todo[e]
  PROVE  NInv'
<1>1. Tracked' /\ NoFuture' /\ DataKept'
  BY DEF NInv, Tracked, NoFuture, DataKept, Newer
<1>2. 0 \notin has_data
  BY DEF NInv, IInv, TypeOK, Docs
<1>3. Collects'
  BY <1>2 DEF NInv, Collects, Newer
<1>. QED BY <1>1, <1>3 DEF NInv

LEMMA CloseNInv ==
  ASSUME NInv, IInv', NEW i \in Closings, close_document(i)
  PROVE  NInv'
<1>1. UNCHANGED <<client, shown, text_of, entries, publishing>>
  BY DEF close_document
<1>2. CASE UNCHANGED <<document, data>>
  BY <1>1, <1>2, EndNInv DEF client, data, entries, publishing
<1>3. CASE Close(closes[i])
  <2>1. /\ document' = 0 /\ has_data' = has_data \ {closes[i]}
        /\ stored' = [stored EXCEPT ![closes[i]] = NoDiagnostics]
        /\ closes[i] \in Docs /\ has_data \subseteq Docs /\ text \in Nat /\ 0 \notin has_data
        /\ stored \in [Docs -> [Collectors -> Texts \cup {-1}]]
    BY <1>3 DEF Close, close_document, NInv, IInv, TypeOK, Linked, Docs, Texts
  <2>2. \A d \in Docs, c \in Collectors : stored'[d][c] \in {-1, stored[d][c]}
        /\ (d \notin has_data' => stored'[d][c] = -1)
    BY <2>1 DEF NoDiagnostics, NInv, DataKept
  <2>3. Tracked' /\ NoFuture' /\ DataKept'
    BY <1>1, <2>1, <2>2 DEF NInv, Tracked, NoFuture, DataKept, client
  <2>4. Collects'
    BY <1>1, <2>1 DEF NInv, Collects, Newer, client, entries, publishing
  <2>. QED BY <2>3, <2>4 DEF NInv
<1>. QED BY <1>2, <1>3 DEF close_document, CloseUnreferenced

(* A task that starts sees the present text, and what is stored.           *)
LEMMA PublishNInv ==
  ASSUME NInv, IInv', NEW e \in Entries, publish_diagnostics(e), document # 0
  PROVE  NInv'
<1>1. /\ UNCHANGED <<client, shown, documents, data>>
      /\ task' = [task EXCEPT ![e] = "collecting"]
      /\ doc' = [doc EXCEPT ![e] = document]
      /\ since' = [since EXCEPT ![e] = text_of[document]]
      /\ todo' = [todo EXCEPT ![e] = Collectors]
      /\ diagnostics' = [diagnostics EXCEPT ![e] = stored[document]]
  BY DEF publish_diagnostics
<1>2. Tracked' /\ NoFuture' /\ DataKept'
  BY <1>1 DEF NInv, Tracked, NoFuture, DataKept, Newer, client, documents, data
<1>3. document \in Docs /\ document <= opened /\ text_of[document] = text
  BY DEF NInv, IInv, TypeOK, Tracked, Docs
<1>4. /\ task \in [Entries -> {"none", "created", "collecting"}]
      /\ doc \in [Entries -> 0 .. MaxOpen] /\ since \in [Entries -> Texts]
      /\ todo \in [Entries -> SUBSET Collectors]
      /\ diagnostics \in [Entries -> [Collectors -> Texts \cup {-1}]]
  BY DEF NInv, IInv, TypeOK
<1>5. \A c \in Collectors : /\ stored[document][c] <= text /\ Newer(stored[document], c)
                            /\ shown[c] <= text
  BY <1>3 DEF NInv, NoFuture, DataKept
<1>6. Collects'
  <2>. SUFFICES ASSUME NEW f \in Entries, task'[f] = "collecting"
                PROVE  /\ doc'[f] <= opened
                       /\ document \in has_data => doc'[f] = document
                       /\ \A c \in Collectors :
                            /\ diagnostics'[f][c] <= text
                            /\ Newer(diagnostics'[f], c)
                            /\ c \in todo'[f] => shown[c] <= since'[f]
                                                 /\ diagnostics'[f][c] <= since'[f]
    BY <1>1 DEF Collects, Newer, client, documents, data
  <2>1. CASE f = e
    BY <1>1, <1>3, <1>4, <1>5, <2>1
  <2>2. CASE f # e
    BY <1>1, <1>4, <2>2 DEF NInv, Collects
  <2>. QED BY <2>1, <2>2
<1>. QED BY <1>2, <1>6 DEF NInv

(* What is sent is no older than what is shown.                            *)
LEMMA CollectNInv ==
  ASSUME NInv, IInv', NEW e \in Entries, NEW c \in Collectors, collect(e, c)
  PROVE  NInv' /\ \A k \in Collectors : shown'[k] = -1 \/ shown'[k] >= shown[k]
<1>1. /\ UNCHANGED <<client, documents, has_data, task, doc, since>>
      /\ task[e] = "collecting" /\ c \in todo[e]
      /\ todo' = [todo EXCEPT ![e] = @ \ {c}]
      /\ shown' = diagnostics'[e]
      /\ stored' = IF doc[e] \in has_data THEN [stored EXCEPT ![doc[e]] = diagnostics'[e]] ELSE stored
  BY DEF collect, entries
<1>2. PICK t \in since[e] .. text_of[doc[e]] : diagnostics' = [diagnostics EXCEPT ![e][c] = t]
  BY DEF collect
<1>3. /\ doc[e] \in Docs /\ since[e] \in Nat /\ text \in Nat /\ text_of[doc[e]] \in Nat
      /\ diagnostics \in [Entries -> [Collectors -> Texts \cup {-1}]] /\ Texts \subseteq Nat
      /\ shown \in [Collectors -> Texts \cup {-1}]
      /\ stored \in [Docs -> [Collectors -> Texts \cup {-1}]]
      /\ todo \in [Entries -> SUBSET Collectors] /\ document \in {0} \cup Docs
  <2>1. Texts \subseteq Nat /\ document \in {0} \cup Docs
    BY DEF NInv, IInv, TypeOK, Texts, Docs
  <2>2. doc[e] \in Docs
    BY <1>1 DEF NInv, IInv, Linked
  <2>3. text \in Nat /\ since[e] \in Nat /\ text_of[doc[e]] \in Nat
    BY <2>1, <2>2 DEF NInv, IInv, TypeOK
  <2>. QED BY <2>1, <2>2, <2>3 DEF NInv, IInv, TypeOK
<1>4. shown'[c] = t /\ t \in Nat /\ t <= text /\ since[e] <= t /\ shown[c] <= since[e]
  BY <1>1, <1>2, <1>3 DEF NInv, NoFuture, Collects
<1>5. \A k \in Collectors \ {c} : shown'[k] = diagnostics[e][k] /\ diagnostics'[e][k] = diagnostics[e][k]
  BY <1>1, <1>2, <1>3
<1>6. \A k \in Collectors : shown'[k] = -1 \/ shown'[k] >= shown[k]
  <2>. SUFFICES ASSUME NEW k \in Collectors PROVE shown'[k] = -1 \/ shown'[k] >= shown[k]
    OBVIOUS
  <2>1. CASE k = c
    BY <1>4, <2>1, Numbers DEF NInv
  <2>2. CASE k # c
    BY <1>1, <1>5, <2>2 DEF NInv, Collects, Newer
  <2>. QED BY <2>1, <2>2
<1>7. \A k \in Collectors : shown'[k] <= text
  BY <1>3, <1>4, <1>5, <1>1 DEF NInv, Collects
<1>8. \A d \in Docs, k \in Collectors : stored'[d][k] \in {stored[d][k], shown'[k]}
        /\ (d # doc[e] \/ d \notin has_data => stored'[d][k] = stored[d][k])
        /\ (d = doc[e] /\ d \in has_data => stored'[d][k] = shown'[k])
  BY <1>1, <1>3
<1>9. \A f \in Entries : task[f] = "collecting" => f = e
  BY <1>1 DEF NInv, IInv, OnePublishes
<1>10. Tracked' /\ NoFuture'
  BY <1>1, <1>7, <1>8 DEF NInv, Tracked, NoFuture, client, documents
<1>11. \A k \in Collectors : shown'[k] \in Int
  <2>1. shown'[c] \in Int
    BY <1>4
  <2>2. \A k \in Collectors \ {c} : shown'[k] \in Int
    BY <1>5, Numbers DEF NInv
  <2>. QED BY <2>1, <2>2
<1>12. DataKept'
  <2>1. \A d \in Docs \ has_data : \A k \in Collectors : stored'[d][k] = -1
    BY <1>8 DEF NInv, DataKept
  <2>2. ASSUME document # 0, NEW k \in Collectors PROVE Newer(stored[document], k)'
    <3>1. CASE document \in has_data
      <4>1. document = doc[e] /\ document' = document
        BY <1>1, <3>1 DEF NInv, Collects, documents
      <4>2. stored'[document][k] = shown'[k]
        BY <1>3, <1>8, <3>1, <4>1
      <4>. QED BY <4>1, <4>2, <1>11 DEF Newer
    <3>2. CASE document \notin has_data
      BY <1>1, <1>3, <2>1, <2>2, <3>2 DEF Newer, documents
    <3>. QED BY <3>1, <3>2
  <2>. QED BY <1>1, <2>1, <2>2 DEF NInv, DataKept, client, documents
<1>13. Collects'
  <2>1. doc[e] <= opened /\ (document \in has_data => doc[e] = document)
    BY <1>1 DEF NInv, Collects
  <2>2. \A k \in Collectors : diagnostics'[e][k] <= text /\ Newer(diagnostics[e], k)'
    BY <1>1, <1>7, <1>11 DEF Newer
  <2>3. \A k \in todo'[e] : shown'[k] <= since[e] /\ diagnostics'[e][k] <= since[e]
    BY <1>1, <1>3, <1>5 DEF NInv, Collects
  <2>. QED BY <1>1, <1>9, <2>1, <2>2, <2>3 DEF Collects, client, documents
<1>. QED BY <1>6, <1>10, <1>12, <1>13 DEF NInv

(* The data a document gets is what was sent, but for what failed.         *)
LEMMA SetDataNInv ==
  ASSUME NInv, IInv', NEW e \in Entries, set_data(e)
  PROVE  NInv'
<1>1. /\ UNCHANGED <<client, shown, documents>>
      /\ task[e] = "collecting" /\ task' = [task EXCEPT ![e] = "none"]
      /\ stored' = [stored EXCEPT ![doc[e]] = Kept(e)]
      /\ has_data' = has_data \cup {doc[e]}
  BY DEF set_data, End
<1>2. /\ doc[e] \in Docs /\ document \in {0} \cup Docs /\ text \in Nat
      /\ stored \in [Docs -> [Collectors -> Texts \cup {-1}]]
      /\ task \in [Entries -> {"none", "created", "collecting"}]
  <2>1. Texts \subseteq Nat /\ document \in {0} \cup Docs
    BY DEF NInv, IInv, TypeOK, Texts, Docs
  <2>2. doc[e] \in Docs
    BY <1>1 DEF NInv, IInv, Linked
  <2>3. text \in Nat
    BY <2>1 DEF NInv, IInv, TypeOK
  <2>. QED BY <2>1, <2>2, <2>3 DEF NInv, IInv, TypeOK
<1>3. \A c \in Collectors : Kept(e)[c] <= text /\ Newer(Kept(e), c)
  BY <1>1, <1>2 DEF Kept, NInv, Collects, Newer
<1>4. \A d \in Docs : stored'[d] = IF d = doc[e] THEN Kept(e) ELSE stored[d]
  BY <1>1, <1>2
<1>5. \A f \in Entries : task'[f] # "collecting"
  BY <1>1, <1>2 DEF NInv, IInv, OnePublishes
<1>6. Tracked' /\ Collects'
  BY <1>1, <1>5 DEF NInv, Tracked, Collects, client, documents
<1>7. NoFuture'
  BY <1>1, <1>3, <1>4 DEF NInv, NoFuture, client, documents
<1>8. DataKept'
  <2>1. \A d \in has_data' : d <= opened
    BY <1>1 DEF NInv, DataKept, Collects
  <2>2. \A d \in Docs \ has_data' : \A c \in Collectors : stored'[d][c] = -1
    BY <1>1, <1>4 DEF NInv, DataKept
  <2>3. document # 0 => \A c \in Collectors : Newer(stored'[document], c)
    BY <1>2, <1>3, <1>4 DEF NInv, DataKept
  <2>. QED BY <1>1, <2>1, <2>2, <2>3 DEF DataKept, Newer, client, documents
<1>. QED BY <1>6, <1>7, <1>8 DEF NInv

LEMMA NextNInv ==
  ASSUME NInv, [Next]_vars
  PROVE  NInv' /\ (shown' # shown => \A k \in Collectors : shown'[k] = -1 \/ shown'[k] >= shown[k])
<1>0. IInv'
  BY NextIInv DEF NInv
<1>1. CASE did_open \/ did_change
  BY <1>0, <1>1, EditNInv DEF did_open, did_change
<1>2. CASE \/ restart \/ did_close \/ start_publish_diagnostics_task \/ cancel_all_tasks
           \/ \E i \in Closings : on_did_close(i)
           \/ UNCHANGED vars
  <2>1. UNCHANGED <<opened, text, shown, documents, data, task, publishing>>
        \/ UNCHANGED <<opened, text, shown, document, text_of, data, task, publishing>>
    BY <1>2 DEF restart, did_close, start_publish_diagnostics_task, cancel_all_tasks, on_did_close,
       vars, client, entries
  <2>. QED BY <1>0, <2>1, EndNInv DEF documents, data, publishing
<1>3. CASE \E i \in Closings : close_document(i)
  BY <1>0, <1>3, CloseNInv DEF close_document
<1>4. CASE \E e \in Entries : \/ create_task(e) \/ cancel(e)
                              \/ publish_diagnostics(e) /\ document = 0
                              \/ \E c \in Collectors : collect_fails(e, c)
  <2>1. PICK e \in Entries : \/ create_task(e) \/ cancel(e)
                             \/ publish_diagnostics(e) /\ document = 0
                             \/ \E c \in Collectors : collect_fails(e, c)
    BY <1>4
  <2>2. UNCHANGED <<client, shown, documents, data>>
    BY <2>1 DEF create_task, cancel, collect_fails, publish_diagnostics
  <2>3. /\ task \in [Entries -> {"none", "created", "collecting"}]
        /\ doc \in [Entries -> 0 .. MaxOpen] /\ since \in [Entries -> Texts]
        /\ todo \in [Entries -> SUBSET Collectors]
        /\ diagnostics \in [Entries -> [Collectors -> Texts \cup {-1}]]
    BY DEF NInv, IInv, TypeOK
  <2>4. \A f \in Entries : task'[f] = "collecting" =>
          /\ task[f] = "collecting" /\ UNCHANGED <<doc[f], since[f], diagnostics[f]>>
          /\ todo'[f] \subseteq todo[f]
    <3>1. CASE create_task(e)
      BY <2>3, <3>1 DEF create_task, publishing
    <3>2. CASE cancel(e) \/ (publish_diagnostics(e) /\ document = 0)
      BY <2>3, <3>2 DEF cancel, publish_diagnostics, End
    <3>3. CASE \E c \in Collectors : collect_fails(e, c)
      BY <2>3, <3>3 DEF collect_fails, entries
    <3>. QED BY <2>1, <3>1, <3>2, <3>3
  <2>. QED BY <1>0, <2>2, <2>4, EndNInv DEF client, documents, data
<1>5. CASE \E e \in Entries : publish_diagnostics(e) /\ document # 0
  BY <1>0, <1>5, PublishNInv DEF publish_diagnostics
<1>6. CASE \E e \in Entries, c \in Collectors : collect(e, c)
  BY <1>0, <1>6, CollectNInv
<1>7. CASE \E e \in Entries : set_data(e)
  BY <1>0, <1>7, SetDataNInv DEF set_data
<1>. QED BY <1>1, <1>2, <1>3, <1>4, <1>5, <1>6, <1>7 DEF Next, Closes, Publish

(* What a collector found in a text is never replaced by what it found in  *)
(* an older one, however often the document is closed and opened.          *)
THEOREM NothingOlderIsShown == Spec => NeverOlder
<1>1. Init => NInv
  BY InitIInv DEF Init, NInv, Tracked, NoFuture, DataKept, Collects, Newer, NoDiagnostics
<1>2. NInv /\ [Next]_vars => NInv'
  BY NextNInv
<1>3. NInv /\ [Next]_vars => [\A c \in Collectors : shown'[c] = -1 \/ shown'[c] >= shown[c]]_shown
  BY NextNInv
<1>. QED BY <1>1, <1>2, <1>3, PTL DEF Spec, NeverOlder
=============================================================================
