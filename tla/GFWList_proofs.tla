--------------------------- MODULE GFWList_proofs ---------------------------
(***************************************************************************)
(* Proofs about GFWList, for any number of handlers and of versions: the   *)
(* type invariant, and that the rules of a group never go back although    *)
(* the updaters of overlapping handlers write the same file.               *)
(***************************************************************************)
EXTENDS GFWList, TLAPS

Holding == {"opening", "writing", "storing"}

\* Nothing is newer than what is published, whatever was written to the file and
\* in whichever order.
FromThePast ==
    /\ file \in Versions => file <= remote
    /\ \A h \in Handlers :
         /\ list[h] \in Versions => list[h] <= remote
         /\ text[h] \in Versions => text[h] <= remote

\* A download in hand is at least as new as the rules it will replace: nobody
\* else stores rules in this group in the meantime.
HeldIsNewer ==
    \A h \in Handlers :
      pc[h] \in Holding /\ text[h] \in Versions /\ list[h] \in Versions => list[h] <= text[h]

\* An updater that writes or stores has something to write or store.
HandsFull == \A h \in Handlers : pc[h] \in Holding => text[h] # Nil

\* A group gets its first rules before its updater exists.
UnbornHasNone == \A h \in Handlers : hstate[h] = "unborn" => list[h] = Nil

IInv == TypeOK /\ HandsFull /\ FromThePast /\ HeldIsNewer /\ UnbornHasNone

LEMMA VersionFacts ==
  /\ Versions \subseteq Nat /\ Handlers \subseteq Nat /\ 1 \in Versions
  /\ Nil \notin Versions /\ Nil # NoRules /\ NoRules \notin Versions /\ Broken \notin Versions
BY BoundsAssumption, SentinelsAssumption DEF Versions, Handlers, NoRules

LEMMA InitIInv == Init => IInv
BY VersionFacts DEF Init, IInv, TypeOK, HandsFull, FromThePast, HeldIsNewer, UnbornHasNone, Holding

LEMMA NextTypeOK == TypeOK /\ HandsFull /\ [Next]_vars => TypeOK'
<1> SUFFICES ASSUME TypeOK, HandsFull, [Next]_vars PROVE TypeOK'
  OBVIOUS
<1>1. ASSUME NEW h \in Handlers, Build(h) PROVE TypeOK'
  BY <1>1 DEF Build, NextUnborn, TypeOK
<1>2. ASSUME NEW h \in Handlers, Start(h) PROVE TypeOK'
  BY <1>2 DEF Start, TypeOK
<1>3. ASSUME NEW h \in Handlers, CloseStopCh(h) PROVE TypeOK'
  BY <1>3 DEF CloseStopCh, TypeOK, updater
<1>4. ASSUME NEW h \in Handlers, Stopped(h) PROVE TypeOK'
  BY <1>4 DEF Stopped, UpdaterGone, TypeOK, updater
<1>5. ASSUME NEW h \in Handlers, UpdaterStep(h) PROVE TypeOK'
  <2> USE DEF TypeOK
  <2>1. CASE Begin(h) \/ TickerFires(h) \/ Leave(h)
    BY <2>1 DEF Begin, TickerFires, Leave
  <2>2. CASE FetchSucceeds(h) \/ FetchIsEmpty(h) \/ FetchFails(h)
    <3>1. text' \in [Handlers -> Versions \cup {NoRules, Nil}]
      BY <2>2 DEF FetchSucceeds, FetchIsEmpty, Fetched, FetchFails
    <3> QED
      BY <2>2, <3>1 DEF FetchSucceeds, FetchIsEmpty, Fetched, FetchFails, WaitsAgain
  <2>3. CASE OpenFile(h)
    BY <2>3 DEF OpenFile
  <2>4. CASE WriteFile(h)
    BY <2>4 DEF WriteFile, HandsFull, Holding
  <2>5. CASE StoreList(h)
    BY <2>5 DEF StoreList, NewRules
  <2> QED
    BY <1>5, <2>1, <2>2, <2>3, <2>4, <2>5 DEF UpdaterStep
<1>6. CASE Crash
  BY <1>6 DEF Crash, TypeOK
<1>7. CASE Publish
  BY <1>7, BoundsAssumption DEF Publish, TypeOK, Versions, updater
<1>8. CASE UNCHANGED vars
  BY <1>8 DEF vars, updater, TypeOK
<1> QED
  BY <1>1, <1>2, <1>3, <1>4, <1>5, <1>6, <1>7, <1>8 DEF Next

Kept == HandsFull /\ FromThePast /\ HeldIsNewer /\ UnbornHasNone

LEMMA NextIInv == IInv /\ [Next]_vars => IInv'
<1> SUFFICES ASSUME IInv, [Next]_vars PROVE Kept'
  BY NextTypeOK DEF IInv, Kept
<1> USE VersionFacts DEF IInv, Kept, TypeOK, HandsFull, FromThePast, HeldIsNewer, UnbornHasNone, Holding
<1>1. ASSUME NEW h \in Handlers, Build(h) PROVE Kept'
  BY <1>1 DEF Build, NextUnborn
<1>2. ASSUME NEW h \in Handlers, Start(h) \/ CloseStopCh(h) \/ Stopped(h)
      PROVE  Kept'
  BY <1>2 DEF Start, CloseStopCh, Stopped, updater
<1>3. ASSUME NEW h \in Handlers, UpdaterStep(h)
      PROVE  Kept'
  <2>1. CASE Begin(h) \/ TickerFires(h) \/ Leave(h)
    BY <2>1 DEF Begin, TickerFires, Leave
  <2>2. CASE FetchSucceeds(h) \/ FetchIsEmpty(h) \/ FetchFails(h)
    <3>1. ASSUME NEW what \in {remote, NoRules}, Fetched(h, what) PROVE Kept'
      <4>1. \A g \in Handlers : text'[g] = IF g = h THEN what ELSE text[g]
        BY <3>1 DEF Fetched
      <4>2. file' = file /\ list' = list /\ remote' = remote /\ hstate' = hstate
        BY <3>1 DEF Fetched
      <4>3. \A g \in Handlers : g # h => pc'[g] = pc[g]
        BY <3>1 DEF Fetched
      <4>4. what \in Versions => what = remote
        OBVIOUS
      <4>5. \A g \in Handlers : list[g] \in Versions => list[g] \in Nat
        OBVIOUS
      <4>6. what # Nil
        BY remote \in Versions, Nil \notin Versions, Nil # NoRules DEF NoRules
      <4>7. HandsFull' /\ UnbornHasNone'
        BY <4>1, <4>2, <4>3, <4>6
      <4>8. FromThePast'
        BY <4>1, <4>2, <4>4
      <4>9. HeldIsNewer'
        BY <4>1, <4>2, <4>3, <4>4
      <4> QED
        BY <4>7, <4>8, <4>9
    <3>2. CASE FetchFails(h)
      BY <3>2 DEF FetchFails, WaitsAgain
    <3> QED
      BY <2>2, <3>1, <3>2 DEF FetchSucceeds, FetchIsEmpty
  <2>3. CASE OpenFile(h) \/ WriteFile(h)
    BY <2>3 DEF OpenFile, WriteFile
  <2>4. CASE StoreList(h)
    BY <2>4 DEF StoreList, NewRules
  <2> QED
    BY <1>3, <2>1, <2>2, <2>3, <2>4 DEF UpdaterStep
<1>4. CASE Crash
  BY <1>4 DEF Crash
<1>5. CASE Publish
  <2>1. remote <= remote' /\ remote \in Nat /\ remote' \in Nat
    BY <1>5 DEF Publish
  <2>2. \A v \in Versions : v <= remote => v <= remote'
    BY <2>1
  <2>3. UNCHANGED <<file, hstate, list, pc, text>>
    BY <1>5 DEF Publish, updater
  <2> QED
    BY <2>2, <2>3
<1>6. CASE UNCHANGED vars
  BY <1>6 DEF vars, updater
<1> QED
  BY <1>1, <1>2, <1>3, <1>4, <1>5, <1>6 DEF Next

\* Every variable keeps its type; an updater runs only in a started group
\* (groups.go:844-868, 871-882).
THEOREM TypeCorrect == Spec => []TypeOK
<1>1. Spec => []IInv
  BY InitIInv, NextIInv, PTL DEF Spec
<1>2. IInv => TypeOK
  BY DEF IInv
<1> QED
  BY <1>1, <1>2, PTL

\* No step replaces the rules of a group by an older list (groups.go:905-914).
LEMMA StepNewer ==
  ASSUME IInv, [Next]_vars
  PROVE  \A h \in Handlers :
           list[h] \in Versions /\ list'[h] \in Versions => list'[h] >= list[h]
<1> SUFFICES ASSUME NEW h \in Handlers, list[h] \in Versions, list'[h] \in Versions
             PROVE  list'[h] >= list[h]
  OBVIOUS
<1>n. list[h] \in Nat /\ list'[h] \in Nat
  BY VersionFacts
<1>1. CASE list' = list
  BY <1>1, <1>n
<1>2. ASSUME NEW g \in Handlers, Build(g) PROVE list'[h] >= list[h]
  <2>1. h # g
    BY <1>2, VersionFacts DEF Build, NextUnborn, IInv, UnbornHasNone
  <2>2. list'[h] = list[h]
    BY <1>2, <2>1 DEF Build, IInv, TypeOK
  <2> QED
    BY <2>2, <1>n
<1>3. ASSUME NEW g \in Handlers, StoreList(g) PROVE list'[h] >= list[h]
  <2>1. list'[h] = IF h = g THEN text[g] ELSE list[h]
    BY <1>3 DEF StoreList, NewRules, IInv, TypeOK
  <2>2. h = g /\ text[g] \in Versions => list[h] <= text[g]
    BY <1>3 DEF StoreList, IInv, HeldIsNewer, Holding
  <2> QED
    BY <2>1, <2>2, <1>n
<1> QED
  BY <1>1, <1>2, <1>3
     DEF Next, UpdaterStep, Start, CloseStopCh, Stopped, Begin, TickerFires, Leave, FetchSucceeds,
         FetchIsEmpty, Fetched, FetchFails, OpenFile, WriteFile, Crash, Publish, vars, updater

\* The rules of a group never go back to an older list, for any number of
\* handlers, versions, crashes and failed writes (groups.go:896-915).
THEOREM RulesNeverGoBack == Spec => NewerOnly
<1>1. IInv /\ [Next]_vars =>
        [\A h \in Handlers :
           list[h] \in Versions /\ list'[h] \in Versions => list'[h] >= list[h]]_vars
  BY StepNewer
<1> QED
  BY <1>1, InitIInv, NextIInv, PTL DEF Spec, NewerOnly
==============================================================================
