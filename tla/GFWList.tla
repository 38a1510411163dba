------------------------------ MODULE GFWList ------------------------------
(***************************************************************************)
(* The GFW list of a group (outbound/groups.go): read from the local file  *)
(* when the group is built, downloaded again by the updater of the started *)
(* group, written back to the file and stored for Match.  The updaters of  *)
(* successive handlers overlap in a reload and share the file; the program *)
(* may crash at any moment and be started again.                           *)
(*                                                                         *)
(* A list is its version; NoRules is a list without rules, which the empty *)
(* file and an empty download decode to, Broken a file that does not       *)
(* decode, and Nil the pointer before any list was stored.                 *)
(***************************************************************************)
EXTENDS Integers

CONSTANTS
    MaxHandlers,    \* bounds the handlers built, by reloads and restarts
    MaxVersion,     \* bounds the versions published
    Nil, Broken

ASSUME BoundsAssumption == MaxHandlers \in Nat \ {0} /\ MaxVersion \in Nat \ {0}
ASSUME SentinelsAssumption == Nil \notin 0..MaxVersion /\ Broken \notin 0..MaxVersion

NoRules == 0
Versions == 1..MaxVersion
Handlers == 1..MaxHandlers
Nobody == 0

VARIABLES
    hasFile,    \* gfwlist_file is configured
    remote,     \* the version published at gfwlist_url
    file,       \* the local file
    current,    \* the handler in service, Nobody while the program is down
    hstate,     \* the group of each handler
    list,       \* gfwList of each group
    pc, text,   \* the updater: where it is, what it has downloaded
    tried       \* the updater has downloaded, or tried to, since its start

updater == <<list, pc, text, tried>>
vars == <<hasFile, remote, file, current, hstate, updater>>

Init ==
    /\ hasFile \in BOOLEAN
    /\ remote = 1
    /\ file \in {NoRules, 1}
    /\ current = Nobody
    /\ hstate = [h \in Handlers |-> "unborn"]
    /\ list = [h \in Handlers |-> Nil]
    /\ pc = [h \in Handlers |-> "off"]
    /\ text = [h \in Handlers |-> Nil]
    /\ tried = [h \in Handlers |-> FALSE]

(***************************************************************************)
(* Start of the program and reloads.                                       *)
(***************************************************************************)
NextUnborn(h) == hstate[h] = "unborn" /\ \A g \in 1..(h - 1) : hstate[g] # "unborn"

\* BuildGroups: a file that does not decode is an error, and nothing is built.
Build(h) ==
    /\ NextUnborn(h)
    /\ \A g \in Handlers : hstate[g] # "built"
    /\ hasFile => file # Broken
    /\ hstate' = [hstate EXCEPT ![h] = "built"]
    /\ list' = [list EXCEPT ![h] = IF hasFile THEN file ELSE Nil]
    /\ UNCHANGED <<hasFile, remote, file, current, pc, text, tried>>

\* group.Start, and the handler enters service.
Start(h) ==
    /\ hstate[h] = "built"
    /\ hstate' = [hstate EXCEPT ![h] = "started"]
    /\ pc' = [pc EXCEPT ![h] = "starting"]
    /\ current' = h
    /\ UNCHANGED <<hasFile, remote, file, list, text, tried>>

\* group.Stop of a handler that has left service closes stopCh...
CloseStopCh(h) ==
    /\ hstate[h] = "started" /\ h # current
    /\ hstate' = [hstate EXCEPT ![h] = "stopping"]
    /\ UNCHANGED <<hasFile, remote, file, current, updater>>

\* ... and returns when the updater has: Start closes g.stopped behind it.
NotWaitedFor(h) == TRUE
UpdaterGone(h) == pc[h] = "off"

Stopped(h) ==
    /\ hstate[h] = "stopping" /\ UpdaterGone(h)
    /\ hstate' = [hstate EXCEPT ![h] = "stopped"]
    /\ UNCHANGED <<hasFile, remote, file, current, updater>>

Crash ==
    /\ current # Nobody
    /\ current' = Nobody
    /\ hstate' = [h \in Handlers |-> IF hstate[h] = "unborn" THEN "unborn" ELSE "stopped"]
    /\ pc' = [h \in Handlers |-> "off"]
    /\ UNCHANGED <<hasFile, remote, file, list, text, tried>>

(***************************************************************************)
(* The updater.                                                            *)
(***************************************************************************)

\* Only a group that has loaded nothing downloads at once.
AtOnce(h) == list[h] = Nil

Begin(h) ==
    /\ pc[h] = "starting"
    /\ pc' = [pc EXCEPT ![h] = IF AtOnce(h) THEN "fetching" ELSE "waiting"]
    /\ UNCHANGED <<hasFile, remote, file, current, hstate, list, text, tried>>

TickerFires(h) ==
    /\ pc[h] = "waiting"
    /\ pc' = [pc EXCEPT ![h] = "fetching"]
    /\ UNCHANGED <<hasFile, remote, file, current, hstate, list, text, tried>>

IgnoresStopCh(h) == FALSE
SeesStopCh(h) == hstate[h] = "stopping"

Leave(h) ==
    /\ pc[h] = "waiting" /\ SeesStopCh(h)
    /\ pc' = [pc EXCEPT ![h] = "off"]
    /\ UNCHANGED <<hasFile, remote, file, current, hstate, list, text, tried>>

\* grabGFWList: what is published at this moment, or an empty body, ...
Fetched(h, what) ==
    /\ pc[h] = "fetching"
    /\ text' = [text EXCEPT ![h] = what]
    /\ tried' = [tried EXCEPT ![h] = TRUE]
    /\ pc' = [pc EXCEPT ![h] = IF hasFile THEN "opening" ELSE "storing"]
    /\ UNCHANGED <<hasFile, remote, file, current, hstate, list>>

FetchSucceeds(h) == Fetched(h, remote)
FetchIsEmpty(h) == Fetched(h, NoRules)

\* ... or nil.
EndsUpdater == "off"
WaitsAgain == "waiting"

FetchFails(h) ==
    /\ pc[h] = "fetching"
    /\ tried' = [tried EXCEPT ![h] = TRUE]
    /\ pc' = [pc EXCEPT ![h] = WaitsAgain]
    /\ UNCHANGED <<hasFile, remote, file, current, hstate, list, text>>

\* os.WriteFile opens the file, which empties it, ...
OpenFile(h) ==
    /\ pc[h] = "opening"
    /\ \/ /\ file' = NoRules
          /\ pc' = [pc EXCEPT ![h] = "writing"]
       \/ /\ file' = file
          /\ pc' = [pc EXCEPT ![h] = "storing"]
    /\ UNCHANGED <<hasFile, remote, current, hstate, list, text, tried>>

\* ... and writes: all of it, a part, or over what another updater writes.  A cut
\* that happens to decode counts as Broken too.
WriteFile(h) ==
    /\ pc[h] = "writing"
    /\ file' \in {text[h], Broken, file}
    /\ pc' = [pc EXCEPT ![h] = "storing"]
    /\ UNCHANGED <<hasFile, remote, current, hstate, list, text, tried>>

\* The new rules come from the download, whatever has become of the file.
RulesOfFile(h) == IF hasFile /\ file # Broken THEN file ELSE text[h]
NewRules(h) == text[h]

StoreList(h) ==
    /\ pc[h] = "storing"
    /\ list' = [list EXCEPT ![h] = NewRules(h)]
    /\ text' = [text EXCEPT ![h] = Nil]
    /\ pc' = [pc EXCEPT ![h] = "waiting"]
    /\ UNCHANGED <<hasFile, remote, file, current, hstate, tried>>

Publish ==
    /\ remote < MaxVersion
    /\ remote' = remote + 1
    /\ UNCHANGED <<hasFile, file, current, hstate, updater>>

UpdaterStep(h) ==
    \/ Begin(h) \/ TickerFires(h) \/ Leave(h)
    \/ FetchSucceeds(h) \/ FetchIsEmpty(h) \/ FetchFails(h)
    \/ OpenFile(h) \/ WriteFile(h) \/ StoreList(h)

Next ==
    \/ \E h \in Handlers : Build(h) \/ Start(h) \/ CloseStopCh(h) \/ Stopped(h) \/ UpdaterStep(h)
    \/ Crash \/ Publish

(***************************************************************************)
(* Fairness: the ticker fires, a download ends within its ten seconds and  *)
(* does not fail for ever, and a select with two ready cases chooses at    *)
(* random, so that neither is passed over for ever.  Nothing is assumed of *)
(* reloads, crashes and versions.                                          *)
(***************************************************************************)
Fairness ==
    \A h \in Handlers :
      /\ WF_vars(UpdaterStep(h)) /\ SF_vars(FetchSucceeds(h)) /\ SF_vars(Leave(h))
      /\ WF_vars(Start(h)) /\ WF_vars(CloseStopCh(h)) /\ WF_vars(Stopped(h))

Spec == Init /\ [][Next]_vars /\ Fairness

(***************************************************************************)
(* Properties.                                                             *)
(***************************************************************************)

\* The type of every variable; an updater runs only in a started group.
TypeOK ==
    /\ hasFile \in BOOLEAN
    /\ remote \in Versions
    /\ file \in Versions \cup {NoRules, Broken}
    /\ current \in Handlers \cup {Nobody}
    /\ hstate \in [Handlers -> {"unborn", "built", "started", "stopping", "stopped"}]
    /\ list \in [Handlers -> Versions \cup {NoRules, Nil}]
    /\ pc \in [Handlers -> {"off", "starting", "waiting", "fetching", "opening", "writing", "storing"}]
    /\ text \in [Handlers -> Versions \cup {NoRules, Nil}]
    /\ tried \in [Handlers -> BOOLEAN]
    /\ \A h \in Handlers : hstate[h] \notin {"started", "stopping"} => pc[h] = "off"

\* The rules of a group never go back to an older list, although the group before
\* it may still be writing one to the file they share.
NewerOnly ==
    [][\A h \in Handlers :
         list[h] \in Versions /\ list'[h] \in Versions => list'[h] >= list[h]]_vars

\* Stop of a replaced group returns, also in the middle of a download.
StopReturns == \A h \in Handlers : hstate[h] = "stopping" ~> hstate[h] = "stopped"

\* As long as the program runs, the handler in service has the list published, or
\* will have: no failed download or write ends the updates.
ListCatchesUp == []<>(current = Nobody \/ list[current] = remote)

\* groups.go: when the local rules are empty or were not loaded, they are
\* downloaded at the start.
EmptyFetchedAtOnce ==
    \A h \in Handlers : pc[h] = "waiting" /\ list[h] \in {Nil, NoRules} => tried[h]
==============================================================================
