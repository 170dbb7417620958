---------------------------- MODULE Settings_proofs ----------------------------
(* The settings and what is built from them, for any number of runs,       *)
(* changes and crashes.                                                    *)
EXTENDS Settings, TLAPS

USE SettingsAssumption DEF SettingsAssumption

\* The object is what the table says, the default where the table says nothing.
TableIsUsed ==
    \A k \in Keys : settings[k] = IF table[k] = None THEN "default" ELSE table[k]

\* No POST resets the API key, so a client with a key is never left behind by
\* settings without one.
KeyIsKept ==
    /\ \A next \in post.todo : next.key = "llm_api_key" => next.value = "other"
    /\ client # None /\ settings["llm_api_key"] = "default" => client.key = "default"

\* The client is the present one, unless a POST has touched it and not ended.
ClientFollows ==
    client # None /\ "llm" \notin unapplied /\ ~(post.at = "keys" /\ "llm" \in post.touched) =>
        ~IsKey(client.key) \/ client = Present

\* Without a POST there is nothing to do and nothing touched.
PostIsWhole == post.at = "idle" => post.touched = {} /\ post.todo = {}

\* A run that asks for an engine has read what to ask for.
AsksTyped ==
    \A r \in Runs : /\ run[r].at \in {"typed", "asks", "loading"} => run[r].type \in Values
                    /\ run[r].at \in {"asks", "loading"} => run[r].name \in Values

\* The engine of a run that has one.
Holding == {"has", "checked", "reloading"}

\* The lock is held by the one run that loads.
LockIsLoading == \A r \in Runs : run[r].at = "loading" <=> lock = r

\* An engine is named after the run that made it, has the key that the runs
\* asked for who use it, and is not made twice.
EnginesAreKnown ==
    /\ \A e \in cache : run[e].at \in Holding \cup {"ended"}
    /\ \A e \in Runs : e \in cache => engine[e] # None /\ engine[e].model # None
    /\ \A r \in Runs : run[r].at = "loading" =>
          engine[r] # None /\ engine[r].model # None
          /\ engine[r].type = run[r].type /\ engine[r].name = run[r].name
    /\ \A r \in Runs : run[r].at \in Holding =>
          LET e == run[r].eng IN
          /\ e \in Runs /\ engine[e] # None /\ run[e].at \in Holding \cup {"ended"}
          /\ engine[e].type = run[r].type /\ engine[e].name = run[r].name
          /\ run[r].at = "reloading" => e \notin cache /\ run[r].model # None

\* A clean run has what the settings name, from the cache; no POST has changed
\* a key since it began.
CleanIsPresent ==
    \A r \in Runs : run[r].clean =>
        /\ post.touched = {} /\ post.at # "unload"
        /\ run[r].at \in Active
        /\ run[r].type = settings["asr_model_type"]
        /\ run[r].at # "typed" => run[r].name = settings["asr_model_name"]
        /\ run[r].at \in Holding => run[r].eng \in cache

\* The engines that are or will be in the cache have the present model, unless
\* a change has left them or is about to unload them.
EnginesFollow ==
    "asr" \notin unapplied \cup post.touched =>
        \A e \in Runs : e \in cache \/ run[e].at = "loading" =>
            engine[e].model = LoadedModel(engine[e].type)

SettingsInv ==
    /\ TypeOK /\ TableIsUsed
    /\ KeyIsKept /\ ClientFollows /\ PostIsWhole
    /\ AsksTyped /\ LockIsLoading /\ EnginesAreKnown /\ CleanIsPresent /\ EnginesFollow

LEMMA InitInv == Init => SettingsInv
  <1> SUFFICES ASSUME Init PROVE SettingsInv
    OBVIOUS
  <1>1. TypeOK
    BY DEF Init, TypeOK, Values, NewRun, IdlePost, Present, Clients, Keys
  <1>2. TableIsUsed /\ KeyIsKept /\ ClientFollows /\ PostIsWhole
    BY DEF Init, TableIsUsed, KeyIsKept, ClientFollows, PostIsWhole, IdlePost, Present, Keys
  <1>3. AsksTyped /\ LockIsLoading /\ EnginesAreKnown /\ CleanIsPresent /\ EnginesFollow
    BY DEF Init, AsksTyped, LockIsLoading, EnginesAreKnown, CleanIsPresent, EnginesFollow, NewRun, Holding
  <1> QED
    BY <1>1, <1>2, <1>3 DEF SettingsInv

-----------------------------------------------------------------------------
(* What the updates of the model do.                                       *)

RunRecord == [at : Active \cup {"new", "ended"}, type : Values \cup {None},
              name : Values \cup {None}, eng : Runs \cup {None},
              model : Models \cup {None}, clean : BOOLEAN]
PostRecord == [at : {"idle", "keys", "unload"}, touched : SUBSET {"llm", "asr"},
               todo : SUBSET [key : Keys, value : Values]]

LEMMA UncleanRuns ==
    ASSUME TypeOK, run' = Unclean
    PROVE  /\ run' \in [Runs -> RunRecord]
           /\ \A r \in Runs :
                 /\ run'[r].at = run[r].at /\ run'[r].type = run[r].type
                 /\ run'[r].name = run[r].name /\ run'[r].eng = run[r].eng
                 /\ run'[r].model = run[r].model /\ run'[r].clean = FALSE
  <1>1. \A r \in Runs : run[r] \in RunRecord
    BY DEF TypeOK, RunRecord
  <1>2. run' = [r \in Runs |-> [run[r] EXCEPT !.clean = FALSE]]
    BY DEF Unclean
  <1>3. ASSUME NEW r \in Runs
        PROVE  /\ run'[r] \in RunRecord
               /\ run'[r].at = run[r].at /\ run'[r].type = run[r].type
               /\ run'[r].name = run[r].name /\ run'[r].eng = run[r].eng
               /\ run'[r].model = run[r].model /\ run'[r].clean = FALSE
    <2> DEFINE new == [run[r] EXCEPT !.clean = FALSE]
    <2>1. /\ new \in RunRecord
          /\ new.at = run[r].at /\ new.type = run[r].type /\ new.name = run[r].name
          /\ new.eng = run[r].eng /\ new.model = run[r].model /\ new.clean = FALSE
      BY <1>1 DEF RunRecord
    <2>2. run'[r] = new
      BY <1>2
    <2> HIDE DEF new
    <2> QED
      BY <2>1, <2>2
  <1> QED
    BY <1>2, <1>3

\* The keys of a POST: none of them puts the API key back to the default.
LEMMA ToDoFits ==
    ASSUME NEW b \in Bodies, NEW next \in ToDo(WithPunc(b))
    PROVE  /\ next \in [key : Keys, value : Values]
           /\ next.key = "llm_api_key" => next.value = "other"
  <1> DEFINE full == WithPunc(b)
  <1>1. PICK ks \in SUBSET Keys :
           b \in [ks -> Values \cup {"blank"}] /\ \A k \in ks : b[k] \in Posted(k)
    BY DEF Bodies
  <1>2. PICK k \in DOMAIN full : full[k] # "blank" /\ next = [key |-> k, value |-> full[k]]
    BY DEF ToDo
  <1>3. k \in Keys /\ full[k] \in Values \cup {"blank"}
        /\ (k # "asr_needs_punc" => k \in ks /\ full[k] = b[k])
    BY <1>1, <1>2 DEF WithPunc, Values, Keys
  <1>4. k = "llm_api_key" => full[k] = "other"
    BY <1>1, <1>2, <1>3 DEF Posted
  <1> HIDE DEF full
  <1> QED
    BY <1>2, <1>3, <1>4

-----------------------------------------------------------------------------
(* The routes.                                                             *)

\* Values that mean the same before and after.
LEMMA SameModel ==
    ASSUME settings'["asr_needs_punc"] = settings["asr_needs_punc"]
    PROVE  \A type : LoadedModel(type)' = LoadedModel(type)
  BY DEF LoadedModel

LEMMA SameClient ==
    ASSUME settings'["llm_base_url"] = settings["llm_base_url"],
           settings'["llm_api_key"] = settings["llm_api_key"]
    PROVE  Present' = Present
  BY DEF Present

\* What is about runs and engines stays if they and the cache stay.
LEMMA EnginesStay ==
    ASSUME SettingsInv, UNCHANGED <<engine, cache, lock>>,
           \A r \in Runs : /\ run'[r].at = run[r].at /\ run'[r].type = run[r].type
                           /\ run'[r].name = run[r].name /\ run'[r].eng = run[r].eng
                           /\ run'[r].model = run[r].model
    PROVE  AsksTyped' /\ LockIsLoading' /\ EnginesAreKnown'
  <1>1. AsksTyped' /\ LockIsLoading'
    BY DEF SettingsInv, AsksTyped, LockIsLoading
  <1>2. \A e \in cache : e \in Runs
    BY DEF SettingsInv, TypeOK
  <1>3. EnginesAreKnown'
    BY <1>2 DEF SettingsInv, EnginesAreKnown, Holding
  <1> QED
    BY <1>1, <1>3

LEMMA PostStartsStep ==
    ASSUME SettingsInv, NEW b \in Bodies, PostStarts(b)
    PROVE  SettingsInv'
  <1> DEFINE new == [IdlePost EXCEPT !.at = "keys", !.todo = ToDo(WithPunc(b))]
  <1>1. /\ post.at = "idle" /\ changes < MaxChanges /\ changes' = changes + 1
        /\ UNCHANGED <<table, settings, client, engineVars, run, unapplied, envKey, crashes>>
        /\ post' = new
    BY DEF PostStarts
  <1>2. new.at = "keys" /\ new.touched = {} /\ new.todo = ToDo(WithPunc(b)) /\ new \in PostRecord
    <2>1. ToDo(WithPunc(b)) \subseteq [key : Keys, value : Values]
      BY ToDoFits
    <2> QED
      BY <2>1 DEF IdlePost, PostRecord
  <1> HIDE DEF new
  <1>3. changes' \in 0..MaxChanges
    BY <1>1 DEF SettingsInv, TypeOK
  <1>4. TypeOK'
    BY <1>1, <1>2, <1>3 DEF SettingsInv, TypeOK, PostRecord, engineVars
  <1>5. TableIsUsed' /\ PostIsWhole'
    BY <1>1, <1>2 DEF SettingsInv, TableIsUsed, PostIsWhole
  <1>6. KeyIsKept' /\ ClientFollows'
    BY <1>1, <1>2, ToDoFits, SameClient DEF SettingsInv, KeyIsKept, ClientFollows, PostIsWhole, IsKey
  <1>7. AsksTyped' /\ LockIsLoading' /\ EnginesAreKnown'
    BY <1>1, EnginesStay DEF engineVars
  <1>8. CleanIsPresent'
    BY <1>1, <1>2 DEF SettingsInv, CleanIsPresent, engineVars
  <1>9. EnginesFollow'
    BY <1>1, <1>2, SameModel DEF SettingsInv, EnginesFollow, PostIsWhole, engineVars
  <1> QED
    BY <1>4, <1>5, <1>6, <1>7, <1>8, <1>9 DEF SettingsInv

LEMMA PostKeyStep ==
    ASSUME SettingsInv, PostKey
    PROVE  SettingsInv'
  <1>1. PICK next \in post.todo :
           /\ table' = [table EXCEPT ![next.key] = next.value]
           /\ settings' = [settings EXCEPT ![next.key] = next.value]
           /\ post' = [post EXCEPT !.todo = @ \ {next}, !.touched = @ \cup Touched(next.key)]
    BY DEF PostKey
  <1>2. /\ post.at = "keys" /\ run' = Unclean
        /\ UNCHANGED <<client, engineVars, unapplied, startVars>>
    BY DEF PostKey
  <1>3. post \in PostRecord
    BY DEF SettingsInv, TypeOK, PostRecord
  <1>4. PICK k \in Keys, v \in Values : k = next.key /\ v = next.value
    BY <1>1, <1>3 DEF PostRecord
  <1>5. k = "llm_api_key" => v = "other"
    BY <1>1, <1>4 DEF SettingsInv, KeyIsKept
  <1>6. /\ settings' \in [Keys -> Values] /\ settings'[k] = v
        /\ table' \in [Keys -> Values \cup {None}] /\ table'[k] = v
        /\ \A other \in Keys \ {k} : settings'[other] = settings[other] /\ table'[other] = table[other]
    BY <1>1, <1>4 DEF SettingsInv, TypeOK
  <1>7. /\ Touched(k) \in SUBSET {"llm", "asr"}
        /\ "llm" \notin Touched(k) => k \notin {"llm_base_url", "llm_api_key"}
        /\ "asr" \notin Touched(k) => k # "asr_needs_punc"
    BY DEF Touched
  <1>8. /\ post' \in PostRecord /\ post'.at = "keys"
        /\ post'.todo = post.todo \ {next} /\ post'.touched = post.touched \cup Touched(k)
    <2> DEFINE todo == post.todo \ {next}
               touched == post.touched \cup Touched(k)
    <2>1. todo \in SUBSET [key : Keys, value : Values] /\ touched \in SUBSET {"llm", "asr"}
      BY <1>3, <1>7 DEF PostRecord
    <2>2. post' = [post EXCEPT !.todo = todo, !.touched = touched]
      BY <1>1, <1>3, <1>4 DEF PostRecord
    <2> HIDE DEF todo, touched
    <2>3. post' \in PostRecord /\ post'.at = "keys" /\ post'.todo = todo /\ post'.touched = touched
      BY <1>2, <1>3, <2>1, <2>2 DEF PostRecord
    <2> QED
      BY <2>3 DEF todo, touched
  <1>9. /\ run' \in [Runs -> RunRecord]
        /\ \A r \in Runs : /\ run'[r].at = run[r].at /\ run'[r].type = run[r].type
                           /\ run'[r].name = run[r].name /\ run'[r].eng = run[r].eng
                           /\ run'[r].model = run[r].model /\ run'[r].clean = FALSE
    BY <1>2, UncleanRuns DEF SettingsInv
  <1>10. TypeOK'
    BY <1>2, <1>6, <1>8, <1>9 DEF SettingsInv, TypeOK, PostRecord, RunRecord, engineVars, startVars
  <1>11. TableIsUsed' /\ PostIsWhole'
    BY <1>6, <1>8 DEF SettingsInv, TableIsUsed, PostIsWhole
  <1>12. KeyIsKept'
    BY <1>2, <1>5, <1>6, <1>8 DEF SettingsInv, KeyIsKept, Keys
  <1>13. ClientFollows'
    <2>1. CASE "llm" \in Touched(k)
      BY <1>8, <2>1 DEF ClientFollows
    <2>2. CASE "llm" \notin Touched(k)
      <3>1. Present' = Present
        BY <1>6, <1>7, <2>2, SameClient DEF Keys
      <3> QED
        BY <1>2, <1>8, <3>1 DEF SettingsInv, ClientFollows, IsKey, startVars
    <2> QED
      BY <2>1, <2>2
  <1>14. AsksTyped' /\ LockIsLoading' /\ EnginesAreKnown'
    BY <1>2, <1>9, EnginesStay DEF engineVars
  <1>15. CleanIsPresent'
    BY <1>9 DEF CleanIsPresent
  <1>16. EnginesFollow'
    <2>1. CASE "asr" \in Touched(k)
      BY <1>8, <2>1 DEF EnginesFollow
    <2>2. CASE "asr" \notin Touched(k)
      <3>1. \A type : LoadedModel(type)' = LoadedModel(type)
        BY <1>6, <1>7, <2>2, SameModel DEF Keys
      <3> QED
        BY <1>2, <1>8, <1>9, <3>1 DEF SettingsInv, EnginesFollow, engineVars
    <2> QED
      BY <2>1, <2>2
  <1> QED
    BY <1>10, <1>11, <1>12, <1>13, <1>14, <1>15, <1>16 DEF SettingsInv

LEMMA PostFailsStep ==
    ASSUME SettingsInv, PostFails
    PROVE  SettingsInv'
  <1>1. /\ post.at = "keys" /\ post' = IdlePost
        /\ unapplied' = unapplied \cup post.touched
        /\ UNCHANGED <<table, settings, client, engineVars, run, startVars>>
    BY DEF PostFails
  <1>2. IdlePost \in PostRecord /\ IdlePost.at = "idle" /\ IdlePost.touched = {} /\ IdlePost.todo = {}
    BY DEF IdlePost, PostRecord
  <1>3. TypeOK'
    BY <1>1, <1>2 DEF SettingsInv, TypeOK, PostRecord, engineVars, startVars
  <1>4. TableIsUsed' /\ KeyIsKept' /\ PostIsWhole'
    BY <1>1, <1>2 DEF SettingsInv, TableIsUsed, KeyIsKept, PostIsWhole
  <1>5. ClientFollows'
    BY <1>1, <1>2, SameClient DEF SettingsInv, ClientFollows, IsKey, startVars
  <1>6. AsksTyped' /\ LockIsLoading' /\ EnginesAreKnown'
    BY <1>1, EnginesStay DEF engineVars
  <1>7. CleanIsPresent'
    BY <1>1, <1>2 DEF SettingsInv, CleanIsPresent, engineVars
  <1>8. EnginesFollow'
    BY <1>1, <1>2, SameModel DEF SettingsInv, EnginesFollow, engineVars
  <1> QED
    BY <1>3, <1>4, <1>5, <1>6, <1>7, <1>8 DEF SettingsInv

LEMMA PresentIsClient == ASSUME TypeOK PROVE Present \in Clients
  BY DEF TypeOK, Present, Clients, Keys

LEMMA PostRefreshesStep ==
    ASSUME SettingsInv, PostRefreshes
    PROVE  SettingsInv'
  <1>1. /\ post.at = "keys"
        /\ \/ /\ client' = Present /\ unapplied' = unapplied \ {"llm"}
           \/ /\ "llm" \notin post.touched \/ ~IsKey(settings["llm_api_key"])
              /\ UNCHANGED <<client, unapplied>>
        /\ UNCHANGED <<table, settings, engineVars, run, startVars>>
    BY DEF PostRefreshes
  <1>2. /\ post' \in PostRecord /\ post'.at \in {"idle", "unload"} /\ post'.todo = {}
        /\ \/ post'.at = "idle" /\ post'.touched = {} /\ "asr" \notin post.touched
           \/ post'.at = "unload" /\ post'.touched = post.touched /\ "asr" \in post.touched
    <2>1. CASE "asr" \in post.touched
      <3>1. post' = [post EXCEPT !.at = "unload"] /\ post.todo = {}
        BY <2>1 DEF PostRefreshes
      <3> QED
        BY <2>1, <3>1 DEF SettingsInv, TypeOK, PostRecord
    <2>2. CASE "asr" \notin post.touched
      BY <2>2 DEF PostRefreshes, IdlePost, PostRecord
    <2> QED
      BY <2>1, <2>2
  <1>3. TypeOK'
    BY <1>1, <1>2, PresentIsClient DEF SettingsInv, TypeOK, PostRecord, engineVars, startVars
  <1>4. TableIsUsed' /\ PostIsWhole'
    BY <1>1, <1>2 DEF SettingsInv, TableIsUsed, PostIsWhole
  <1>5. Present' = Present /\ Present.key = settings["llm_api_key"]
    BY <1>1 DEF Present
  <1>6. KeyIsKept'
    BY <1>1, <1>2, <1>5 DEF SettingsInv, KeyIsKept
  <1>7. ClientFollows'
    BY <1>1, <1>2, <1>5 DEF SettingsInv, ClientFollows, KeyIsKept, IsKey, startVars
  <1>8. AsksTyped' /\ LockIsLoading' /\ EnginesAreKnown'
    BY <1>1, EnginesStay DEF engineVars
  <1>9. CleanIsPresent'
    BY <1>1, <1>2 DEF SettingsInv, CleanIsPresent, engineVars
  <1>10. EnginesFollow'
    BY <1>1, <1>2, SameModel DEF SettingsInv, EnginesFollow, engineVars
  <1> QED
    BY <1>3, <1>4, <1>6, <1>7, <1>8, <1>9, <1>10 DEF SettingsInv

LEMMA PostUnloadsStep ==
    ASSUME SettingsInv, PostUnloads
    PROVE  SettingsInv'
  <1>1. /\ post.at = "unload" /\ lock = None /\ cache' = {} /\ post' = IdlePost
        /\ unapplied' = unapplied \ {"asr"}
        /\ UNCHANGED <<table, settings, client, lock, run, startVars>>
    BY DEF PostUnloads
  <1>2. IdlePost \in PostRecord /\ IdlePost.at = "idle" /\ IdlePost.touched = {} /\ IdlePost.todo = {}
    BY DEF IdlePost, PostRecord
  <1>3. /\ engine' \in [Runs -> Engines \cup {None}]
        /\ \A e \in Runs : engine[e] # None =>
              engine'[e] # None /\ engine'[e].type = engine[e].type /\ engine'[e].name = engine[e].name
    <2>1. ASSUME NEW e \in Runs
          PROVE  /\ engine'[e] \in Engines \cup {None}
                 /\ engine[e] # None =>
                       engine'[e] # None /\ engine'[e].type = engine[e].type
                                         /\ engine'[e].name = engine[e].name
      <3>1. CASE e \in cache
        <4> DEFINE new == [engine[e] EXCEPT !.model = None]
        <4>1. engine[e] \in Engines
          BY <3>1 DEF SettingsInv, TypeOK, EnginesAreKnown
        <4>2. new \in Engines /\ new.type = engine[e].type /\ new.name = engine[e].name
          BY <4>1 DEF Engines
        <4>3. engine'[e] = new
          BY <3>1 DEF PostUnloads
        <4> HIDE DEF new
        <4> QED
          BY <4>2, <4>3
      <3>2. CASE e \notin cache
        BY <3>2 DEF PostUnloads, SettingsInv, TypeOK
      <3> QED
        BY <3>1, <3>2
    <2>2. DOMAIN engine' = Runs /\ engine' = [e \in Runs |-> engine'[e]]
      BY DEF PostUnloads
    <2> QED
      BY <2>1, <2>2
  <1>4. \A r \in Runs : run[r].at # "loading" /\ run[r].clean = FALSE
    BY <1>1 DEF SettingsInv, LockIsLoading, CleanIsPresent, TypeOK
  <1>5. TypeOK'
    BY <1>1, <1>2, <1>3 DEF SettingsInv, TypeOK, PostRecord, startVars
  <1>6. TableIsUsed' /\ KeyIsKept' /\ PostIsWhole'
    BY <1>1, <1>2 DEF SettingsInv, TableIsUsed, KeyIsKept, PostIsWhole
  <1>7. ClientFollows'
    BY <1>1, <1>2, SameClient DEF SettingsInv, ClientFollows, IsKey, startVars
  <1>8. AsksTyped' /\ LockIsLoading'
    BY <1>1 DEF SettingsInv, AsksTyped, LockIsLoading
  <1>9. EnginesAreKnown'
    BY <1>1, <1>3, <1>4 DEF SettingsInv, EnginesAreKnown, Holding
  <1>10. CleanIsPresent' /\ EnginesFollow'
    BY <1>1, <1>4 DEF CleanIsPresent, EnginesFollow
  <1> QED
    BY <1>5, <1>6, <1>7, <1>8, <1>9, <1>10 DEF SettingsInv

LEMMA DeleteStep ==
    ASSUME SettingsInv, NEW k \in Changed, Delete(k)
    PROVE  SettingsInv'
  <1>1. /\ post.at = "idle" /\ changes < MaxChanges /\ changes' = changes + 1
        /\ table' = [table EXCEPT ![k] = None]
        /\ settings' = [settings EXCEPT ![k] = "default"]
        /\ run' = Unclean
        /\ UNCHANGED <<engineVars, post, envKey, crashes>>
    BY DEF Delete, ResetValue
  <1>2. \/ /\ k \in {"llm_base_url", "llm_api_key"}
           /\ client' = Present' /\ unapplied' = unapplied \ {"llm"}
        \/ /\ k \notin {"llm_base_url", "llm_api_key"}
           /\ client' = client /\ unapplied' = unapplied \cup {"asr"}
    BY DEF Delete, Touched
  <1>3. k \in Keys
    OBVIOUS
  <1>4. /\ settings' \in [Keys -> Values] /\ settings'[k] = "default"
        /\ table' \in [Keys -> Values \cup {None}] /\ table'[k] = None
        /\ \A other \in Keys \ {k} : settings'[other] = settings[other] /\ table'[other] = table[other]
    BY <1>1, <1>3 DEF SettingsInv, TypeOK, Values
  <1>5. Present' \in Clients /\ Present'.key = settings'["llm_api_key"]
    BY <1>4 DEF Present, Clients, Keys
  <1>6. /\ run' \in [Runs -> RunRecord]
        /\ \A r \in Runs : /\ run'[r].at = run[r].at /\ run'[r].type = run[r].type
                           /\ run'[r].name = run[r].name /\ run'[r].eng = run[r].eng
                           /\ run'[r].model = run[r].model /\ run'[r].clean = FALSE
    BY <1>1, UncleanRuns DEF SettingsInv
  <1>7. changes' \in 0..MaxChanges
    BY <1>1 DEF SettingsInv, TypeOK
  <1>8. TypeOK'
    BY <1>1, <1>2, <1>4, <1>5, <1>6, <1>7, ZenonT(30) DEF SettingsInv, TypeOK, RunRecord, engineVars
  <1>9. TableIsUsed' /\ PostIsWhole'
    BY <1>1, <1>4 DEF SettingsInv, TableIsUsed, PostIsWhole
  <1>10. k \notin {"llm_base_url", "llm_api_key"} =>
            Present' = Present /\ settings'["llm_api_key"] = settings["llm_api_key"]
    BY <1>4, SameClient DEF Keys
  <1>11. KeyIsKept'
    BY <1>1, <1>2, <1>5, <1>10 DEF SettingsInv, KeyIsKept
  <1>12. ClientFollows'
    BY <1>1, <1>2, <1>10 DEF SettingsInv, ClientFollows, IsKey
  <1>13. AsksTyped' /\ LockIsLoading' /\ EnginesAreKnown'
    BY <1>1, <1>6, EnginesStay DEF engineVars
  <1>14. CleanIsPresent'
    BY <1>6 DEF CleanIsPresent
  <1>15. EnginesFollow'
    <2>1. CASE k \in {"llm_base_url", "llm_api_key"}
      <3>1. \A type : LoadedModel(type)' = LoadedModel(type)
        BY <1>4, <2>1, SameModel DEF Keys
      <3> QED
        BY <1>1, <1>2, <1>6, <2>1, <3>1 DEF SettingsInv, EnginesFollow, engineVars
    <2>2. CASE k \notin {"llm_base_url", "llm_api_key"}
      BY <1>2, <2>2 DEF EnginesFollow
    <2> QED
      BY <2>1, <2>2
  <1> QED
    BY <1>8, <1>9, <1>11, <1>12, <1>13, <1>14, <1>15 DEF SettingsInv

LEMMA GenerateStep ==
    ASSUME SettingsInv, Generate
    PROVE  SettingsInv'
  <1>1. /\ client' = Present
        /\ UNCHANGED <<table, settings, engineVars, run, post, unapplied, startVars>>
    BY DEF Generate
  <1>2. Present' = Present /\ Present.key = settings["llm_api_key"] /\ Present \in Clients
    BY <1>1, PresentIsClient DEF Present, SettingsInv
  <1>3. TypeOK'
    BY <1>1, <1>2 DEF SettingsInv, TypeOK, engineVars, startVars
  <1>4. TableIsUsed' /\ PostIsWhole' /\ KeyIsKept' /\ ClientFollows'
    BY <1>1, <1>2 DEF SettingsInv, TableIsUsed, PostIsWhole, KeyIsKept, ClientFollows
  <1>5. AsksTyped' /\ LockIsLoading' /\ EnginesAreKnown'
    BY <1>1, EnginesStay DEF engineVars
  <1>6. CleanIsPresent' /\ EnginesFollow'
    BY <1>1, SameModel DEF SettingsInv, CleanIsPresent, EnginesFollow, engineVars
  <1> QED
    BY <1>3, <1>4, <1>5, <1>6 DEF SettingsInv

LEMMA CrashStep ==
    ASSUME SettingsInv, Crash
    PROVE  SettingsInv'
  <1>1. /\ crashes < MaxCrashes /\ crashes' = crashes + 1
        /\ settings' = Restored
        /\ client' = IF IsKey(settings'["llm_api_key"]) THEN Present' ELSE None
        /\ cache' = {} /\ lock' = None
        /\ run' = [r \in Runs |-> IF run[r].at = "new" THEN run[r] ELSE Over]
        /\ post' = IdlePost /\ unapplied' = {}
        /\ engine' = [r \in Runs |-> None]
        /\ UNCHANGED <<table, envKey, changes>>
    BY DEF Crash
  <1>2. settings' = settings
    BY <1>1 DEF Restored, SettingsInv, TypeOK, TableIsUsed
  <1>3. Present' \in Clients /\ Present'.key = settings'["llm_api_key"]
    BY <1>2, PresentIsClient DEF SettingsInv, Present
  <1>4. IdlePost \in PostRecord /\ IdlePost.at = "idle" /\ IdlePost.touched = {} /\ IdlePost.todo = {}
    BY DEF IdlePost, PostRecord
  <1>5. Over \in RunRecord /\ Over.at = "ended" /\ Over.clean = FALSE
    BY DEF Over, NewRun, RunRecord
  <1>6. /\ run' \in [Runs -> RunRecord]
        /\ \A r \in Runs : run'[r].at \in {"new", "ended"} /\ run'[r].clean = FALSE
    BY <1>1, <1>5 DEF SettingsInv, TypeOK, RunRecord, CleanIsPresent, Active
  <1>7. crashes' \in 0..MaxCrashes
    BY <1>1 DEF SettingsInv, TypeOK
  <1>8. TypeOK'
    BY <1>1, <1>2, <1>3, <1>4, <1>6, <1>7 DEF SettingsInv, TypeOK, RunRecord, PostRecord
  <1>9. TableIsUsed' /\ PostIsWhole'
    BY <1>1, <1>2, <1>4 DEF SettingsInv, TableIsUsed, PostIsWhole
  <1>10. KeyIsKept' /\ ClientFollows'
    BY <1>1, <1>3, <1>4 DEF KeyIsKept, ClientFollows
  <1>11. AsksTyped' /\ LockIsLoading' /\ EnginesAreKnown'
    BY <1>1, <1>6 DEF AsksTyped, LockIsLoading, EnginesAreKnown, Holding
  <1>12. CleanIsPresent' /\ EnginesFollow'
    BY <1>1, <1>6 DEF CleanIsPresent, EnginesFollow
  <1> QED
    BY <1>8, <1>9, <1>10, <1>11, <1>12 DEF SettingsInv

-----------------------------------------------------------------------------
(* The runs.                                                               *)

LEMMA RoutesStay ==
    ASSUME SettingsInv, UNCHANGED <<table, settings, client, post, unapplied, envKey>>
    PROVE  /\ TableIsUsed' /\ KeyIsKept' /\ ClientFollows' /\ PostIsWhole'
           /\ \A type : LoadedModel(type)' = LoadedModel(type)
  <1>1. TableIsUsed' /\ KeyIsKept' /\ PostIsWhole'
    BY DEF SettingsInv, TableIsUsed, KeyIsKept, PostIsWhole
  <1>2. ClientFollows'
    BY SameClient DEF SettingsInv, ClientFollows, IsKey
  <1> QED
    BY <1>1, <1>2, SameModel

LEMMA RunIsTyped ==
    ASSUME TypeOK, NEW r \in Runs
    PROVE  /\ run[r] \in RunRecord /\ run \in [Runs -> RunRecord]
           /\ run[r] = [at |-> run[r].at, type |-> run[r].type, name |-> run[r].name,
                        eng |-> run[r].eng, model |-> run[r].model, clean |-> run[r].clean]
  <1>1. run[r] \in RunRecord /\ run \in [Runs -> RunRecord]
    BY DEF TypeOK, RunRecord
  <1> QED
    BY <1>1 DEF RunRecord

\* A run gets new fields, and the other runs keep theirs.
LEMMA RunMoves ==
    ASSUME TypeOK, NEW r \in Runs, NEW new \in RunRecord, run' = [run EXCEPT ![r] = new]
    PROVE  /\ run' \in [Runs -> RunRecord] /\ run'[r] = new
           /\ \A o \in Runs \ {r} : run'[o] = run[o]
  BY DEF TypeOK, RunRecord

LEMMA ReadsTypeStep ==
    ASSUME SettingsInv, NEW r \in Runs, ReadsType(r)
    PROVE  SettingsInv'
  <1> DEFINE new == [run[r] EXCEPT !.at = "typed", !.type = settings["asr_model_type"],
                                   !.clean = (post.at = "idle")]
  <1>1. UNCHANGED <<table, settings, client, engine, cache, lock, post, unapplied, envKey, changes, crashes>>
    BY DEF ReadsType, engineVars, startVars
  <1>2. TypeOK /\ run[r] \in RunRecord /\ settings["asr_model_type"] \in Values
    BY RunIsTyped DEF SettingsInv, TypeOK, Keys
  <1>3. /\ new \in RunRecord /\ new.at = "typed" /\ new.type = settings["asr_model_type"]
        /\ new.clean <=> post.at = "idle"
    BY <1>2 DEF RunRecord, Active
  <1>4. run' = [run EXCEPT ![r] = new] /\ run[r].at = "new"
    BY DEF ReadsType, Becomes
  <1> HIDE DEF new
  <1>5. /\ run' \in [Runs -> RunRecord] /\ run'[r] = new
        /\ \A o \in Runs \ {r} : run'[o] = run[o]
    BY <1>2, <1>3, <1>4, RunMoves
  <1>6. TypeOK' /\ AsksTyped'
    BY <1>1, <1>2, <1>3, <1>4, <1>5 DEF SettingsInv, TypeOK, RunRecord, AsksTyped
  <1>7. LockIsLoading'
    BY <1>1, <1>3, <1>4, <1>5 DEF SettingsInv, LockIsLoading
  <1>8. EnginesAreKnown'
    BY <1>1, <1>2, <1>3, <1>4, <1>5 DEF SettingsInv, TypeOK, EnginesAreKnown, Holding
  <1>9. CleanIsPresent'
    BY <1>1, <1>3, <1>5 DEF SettingsInv, PostIsWhole, CleanIsPresent, Holding, Active
  <1>10. EnginesFollow'
    BY <1>1, <1>3, <1>4, <1>5, RoutesStay DEF SettingsInv, EnginesFollow
  <1> QED
    BY <1>1, <1>6, <1>7, <1>8, <1>9, <1>10, RoutesStay DEF SettingsInv

LEMMA ReadsNameStep ==
    ASSUME SettingsInv, NEW r \in Runs, ReadsName(r)
    PROVE  SettingsInv'
  <1> DEFINE new == [run[r] EXCEPT !.at = "asks", !.name = settings["asr_model_name"]]
  <1>1. UNCHANGED <<table, settings, client, engine, cache, lock, post, unapplied, envKey, changes, crashes>>
    BY DEF ReadsName, engineVars, startVars
  <1>2. TypeOK /\ run[r] \in RunRecord /\ settings["asr_model_name"] \in Values
    BY RunIsTyped DEF SettingsInv, TypeOK, Keys
  <1>3. /\ new \in RunRecord /\ new.at = "asks" /\ new.name = settings["asr_model_name"]
        /\ new.type = run[r].type /\ new.clean = run[r].clean
    BY <1>2 DEF RunRecord, Active
  <1>4. run' = [run EXCEPT ![r] = new] /\ run[r].at = "typed"
    BY DEF ReadsName, Becomes
  <1> HIDE DEF new
  <1>5. /\ run' \in [Runs -> RunRecord] /\ run'[r] = new
        /\ \A o \in Runs \ {r} : run'[o] = run[o]
    BY <1>2, <1>3, <1>4, RunMoves
  <1>6. TypeOK' /\ AsksTyped'
    BY <1>1, <1>2, <1>3, <1>4, <1>5 DEF SettingsInv, TypeOK, RunRecord, AsksTyped
  <1>7. LockIsLoading'
    BY <1>1, <1>3, <1>4, <1>5 DEF SettingsInv, LockIsLoading
  <1>8. EnginesAreKnown'
    BY <1>1, <1>2, <1>3, <1>4, <1>5 DEF SettingsInv, TypeOK, EnginesAreKnown, Holding
  <1>9. CleanIsPresent'
    BY <1>1, <1>3, <1>5 DEF SettingsInv, CleanIsPresent, Holding, Active
  <1>10. EnginesFollow'
    BY <1>1, <1>3, <1>4, <1>5, RoutesStay DEF SettingsInv, EnginesFollow
  <1> QED
    BY <1>1, <1>6, <1>7, <1>8, <1>9, <1>10, RoutesStay DEF SettingsInv

LEMMA FindsEngineStep ==
    ASSUME SettingsInv, NEW r \in Runs, FindsEngine(r)
    PROVE  SettingsInv'
  <1>1. UNCHANGED <<table, settings, client, engine, cache, lock, post, unapplied, envKey, changes, crashes>>
    BY DEF FindsEngine, engineVars, startVars
  <1>2. PICK e \in Runs :
           /\ e \in cache /\ engine[e].type = run[r].type /\ engine[e].name = run[r].name
           /\ run' = [run EXCEPT ![r] = [run[r] EXCEPT !.at = "has", !.eng = e]]
    BY DEF FindsEngine, Found, Becomes, SettingsInv, TypeOK
  <1> DEFINE new == [run[r] EXCEPT !.at = "has", !.eng = e]
  <1>3. TypeOK /\ run[r] \in RunRecord /\ run[r].at = "asks"
    BY RunIsTyped DEF SettingsInv, FindsEngine
  <1>4. /\ new \in RunRecord /\ new.at = "has" /\ new.eng = e /\ new.name = run[r].name
        /\ new.type = run[r].type /\ new.clean = run[r].clean
    BY <1>3 DEF RunRecord, Active
  <1>5. run' = [run EXCEPT ![r] = new]
    BY <1>2
  <1> HIDE DEF new
  <1>6. /\ run' \in [Runs -> RunRecord] /\ run'[r] = new
        /\ \A o \in Runs \ {r} : run'[o] = run[o]
    BY <1>3, <1>4, <1>5, RunMoves
  <1>7. TypeOK' /\ AsksTyped'
    BY <1>1, <1>4, <1>6 DEF SettingsInv, TypeOK, RunRecord, AsksTyped
  <1>8. LockIsLoading'
    BY <1>1, <1>3, <1>4, <1>6 DEF SettingsInv, LockIsLoading
  <1>9. EnginesAreKnown'
    BY <1>1, <1>2, <1>3, <1>4, <1>6 DEF SettingsInv, TypeOK, EnginesAreKnown, Holding
  <1>10. CleanIsPresent'
    BY <1>1, <1>2, <1>3, <1>4, <1>6 DEF SettingsInv, CleanIsPresent, Holding, Active
  <1>11. EnginesFollow'
    BY <1>1, <1>3, <1>4, <1>6, RoutesStay DEF SettingsInv, EnginesFollow
  <1> QED
    BY <1>1, <1>7, <1>8, <1>9, <1>10, <1>11, RoutesStay DEF SettingsInv

LEMMA LoadedModelIsModel == \A type : LoadedModel(type) \in Models
  BY DEF LoadedModel, Models

LEMMA TakesLockStep ==
    ASSUME SettingsInv, NEW r \in Runs, TakesLock(r)
    PROVE  SettingsInv'
  <1> DEFINE new == [run[r] EXCEPT !.at = "loading"]
             eng == [type |-> run[r].type, name |-> run[r].name, model |-> LoadedModel(run[r].type)]
  <1>1. /\ UNCHANGED <<table, settings, client, cache, post, unapplied, envKey, changes, crashes>>
        /\ lock = None /\ lock' = r
        /\ engine' = [engine EXCEPT ![r] = eng]
    BY DEF TakesLock, startVars
  <1>2. TypeOK /\ run[r] \in RunRecord /\ run[r].at = "asks"
    BY RunIsTyped DEF SettingsInv, TakesLock
  <1>3. /\ new \in RunRecord /\ new.at = "loading" /\ new.name = run[r].name
        /\ new.type = run[r].type /\ new.clean = run[r].clean
    BY <1>2 DEF RunRecord, Active
  <1>4. run' = [run EXCEPT ![r] = new]
    BY DEF TakesLock, Moves, Becomes
  <1>5. run[r].type \in Values /\ run[r].name \in Values
    BY <1>2 DEF SettingsInv, AsksTyped
  <1>6. /\ eng \in Engines /\ eng # None /\ eng.type = run[r].type /\ eng.name = run[r].name
        /\ eng.model = LoadedModel(run[r].type) /\ eng.model # None
    BY <1>5, LoadedModelIsModel DEF Engines
  <1> HIDE DEF new, eng
  <1>7. /\ run' \in [Runs -> RunRecord] /\ run'[r] = new
        /\ \A o \in Runs \ {r} : run'[o] = run[o]
    BY <1>2, <1>3, <1>4, RunMoves
  <1>8. /\ engine' \in [Runs -> Engines \cup {None}] /\ engine'[r] = eng
        /\ \A o \in Runs \ {r} : engine'[o] = engine[o]
    BY <1>1, <1>2, <1>6 DEF TypeOK
  <1>9. TypeOK' /\ AsksTyped'
    BY <1>1, <1>3, <1>5, <1>7, <1>8 DEF SettingsInv, TypeOK, RunRecord, AsksTyped
  <1>10. LockIsLoading'
    BY <1>1, <1>3, <1>7 DEF SettingsInv, LockIsLoading
  <1>11. r \notin cache /\ \A o \in Runs : run[o].at \in Holding => run[o].eng # r
    BY <1>2 DEF SettingsInv, EnginesAreKnown, Holding
  <1>12. EnginesAreKnown'
    BY <1>1, <1>2, <1>3, <1>6, <1>7, <1>8, <1>11 DEF SettingsInv, TypeOK, EnginesAreKnown, Holding
  <1>13. CleanIsPresent'
    BY <1>1, <1>2, <1>3, <1>7 DEF SettingsInv, CleanIsPresent, Holding, Active
  <1>14. EnginesFollow'
    BY <1>1, <1>2, <1>3, <1>6, <1>7, <1>8, <1>11, RoutesStay DEF SettingsInv, EnginesFollow
  <1> QED
    BY <1>1, <1>9, <1>10, <1>12, <1>13, <1>14, RoutesStay DEF SettingsInv

LEMMA LoadEndsStep ==
    ASSUME SettingsInv, NEW r \in Runs, LoadEnds(r)
    PROVE  SettingsInv'
  <1> DEFINE new == [run[r] EXCEPT !.at = "has", !.eng = r]
  <1>1. /\ UNCHANGED <<table, settings, client, engine, post, unapplied, envKey, changes, crashes>>
        /\ lock' = None /\ cache' = cache \cup {r}
    BY DEF LoadEnds, startVars
  <1>2. TypeOK /\ run[r] \in RunRecord /\ run[r].at = "loading"
    BY RunIsTyped DEF SettingsInv, LoadEnds
  <1>3. /\ new \in RunRecord /\ new.at = "has" /\ new.eng = r /\ new.name = run[r].name
        /\ new.type = run[r].type /\ new.clean = run[r].clean
    BY <1>2 DEF RunRecord, Active
  <1>4. run' = [run EXCEPT ![r] = new]
    BY DEF LoadEnds, Becomes
  <1> HIDE DEF new
  <1>5. /\ run' \in [Runs -> RunRecord] /\ run'[r] = new
        /\ \A o \in Runs \ {r} : run'[o] = run[o]
    BY <1>2, <1>3, <1>4, RunMoves
  <1>6. TypeOK' /\ AsksTyped'
    BY <1>1, <1>2, <1>3, <1>5 DEF SettingsInv, TypeOK, RunRecord, AsksTyped
  <1>7. LockIsLoading'
    BY <1>1, <1>2, <1>3, <1>5 DEF SettingsInv, LockIsLoading
  <1>8. /\ engine[r] # None /\ engine[r].model # None
        /\ engine[r].type = run[r].type /\ engine[r].name = run[r].name
        /\ \A o \in Runs : run[o].at \in Holding => run[o].eng # r
    BY <1>2 DEF SettingsInv, EnginesAreKnown, Holding
  <1>9. EnginesAreKnown'
    BY <1>1, <1>2, <1>3, <1>5, <1>8 DEF SettingsInv, TypeOK, EnginesAreKnown, Holding
  <1>10. CleanIsPresent'
    BY <1>1, <1>2, <1>3, <1>5 DEF SettingsInv, CleanIsPresent, Holding, Active
  <1>11. EnginesFollow'
    BY <1>1, <1>2, <1>3, <1>5, RoutesStay DEF SettingsInv, EnginesFollow
  <1> QED
    BY <1>1, <1>6, <1>7, <1>9, <1>10, <1>11, RoutesStay DEF SettingsInv

\* A run that ends, with or without the lock.
LEMMA EndsStep ==
    ASSUME SettingsInv, NEW r \in Runs, Ends(r), run[r].at \in Active,
           \/ lock' = None /\ run[r].at = "loading"
           \/ lock' = lock /\ run[r].at # "loading",
           UNCHANGED <<table, settings, client, engine, cache, post, unapplied, envKey, changes, crashes>>
    PROVE  SettingsInv'
  <1>1. TypeOK /\ Over \in RunRecord /\ Over.at = "ended" /\ Over.clean = FALSE
    BY DEF SettingsInv, Over, NewRun, RunRecord
  <1>2. /\ run' \in [Runs -> RunRecord] /\ run'[r] = Over
        /\ \A o \in Runs \ {r} : run'[o] = run[o]
    BY <1>1, RunMoves DEF Ends, Becomes
  <1>3. TypeOK' /\ AsksTyped'
    BY <1>1, <1>2 DEF SettingsInv, TypeOK, RunRecord, AsksTyped
  <1>4. LockIsLoading'
    BY <1>1, <1>2 DEF SettingsInv, LockIsLoading
  <1>5. EnginesAreKnown'
    BY <1>1, <1>2 DEF SettingsInv, TypeOK, EnginesAreKnown, Holding, Active
  <1>6. CleanIsPresent'
    BY <1>1, <1>2 DEF SettingsInv, CleanIsPresent
  <1>7. EnginesFollow'
    BY <1>1, <1>2, RoutesStay DEF SettingsInv, EnginesFollow
  <1> QED
    BY <1>3, <1>4, <1>5, <1>6, <1>7, RoutesStay DEF SettingsInv

LEMMA ChecksModelStep ==
    ASSUME SettingsInv, NEW r \in Runs, ChecksModel(r)
    PROVE  SettingsInv'
  <1>1. UNCHANGED <<table, settings, client, engine, cache, lock, post, unapplied, envKey, changes, crashes>>
    BY DEF ChecksModel, engineVars, startVars
  <1>2. TypeOK /\ run[r] \in RunRecord /\ run[r].at = "has"
    BY RunIsTyped DEF SettingsInv, ChecksModel
  <1>3. PICK new \in RunRecord :
           /\ run' = [run EXCEPT ![r] = new]
           /\ new.eng = run[r].eng /\ new.name = run[r].name
           /\ new.type = run[r].type /\ new.clean = run[r].clean
           /\ \/ /\ new.at = "reloading" /\ engine[run[r].eng].model = None
                 /\ new.model # None
              \/ new.at = "checked"
    <2>1. CASE engine[run[r].eng].model = None
      <3>1. PICK model \in Models : model = LoadedModel(engine[run[r].eng].type)
        BY LoadedModelIsModel
      <3> DEFINE new == [run[r] EXCEPT !.at = "reloading", !.model = model]
      <3>2. /\ new \in RunRecord /\ new.at = "reloading" /\ new.model # None
            /\ new.eng = run[r].eng /\ new.name = run[r].name
            /\ new.type = run[r].type /\ new.clean = run[r].clean
        BY <1>2 DEF RunRecord, Active
      <3>3. run' = [run EXCEPT ![r] = new]
        BY <2>1, <3>1 DEF ChecksModel, Becomes
      <3> HIDE DEF new
      <3> QED
        BY <2>1, <3>2, <3>3
    <2>2. CASE engine[run[r].eng].model # None
      <3> DEFINE new == [run[r] EXCEPT !.at = "checked"]
      <3>1. /\ new \in RunRecord /\ new.at = "checked"
            /\ new.eng = run[r].eng /\ new.name = run[r].name
            /\ new.type = run[r].type /\ new.clean = run[r].clean
        BY <1>2 DEF RunRecord, Active
      <3>2. run' = [run EXCEPT ![r] = new]
        BY <2>2 DEF ChecksModel, Moves, Becomes
      <3> HIDE DEF new
      <3> QED
        BY <3>1, <3>2
    <2> QED
      BY <2>1, <2>2
  <1>4. /\ run' \in [Runs -> RunRecord] /\ run'[r] = new
        /\ \A o \in Runs \ {r} : run'[o] = run[o]
    BY <1>2, <1>3, RunMoves
  <1>5. new.at \in {"checked", "reloading"}
    BY <1>3
  <1>6. TypeOK' /\ AsksTyped'
    BY <1>1, <1>4, <1>5 DEF SettingsInv, TypeOK, RunRecord, AsksTyped
  <1>7. LockIsLoading'
    BY <1>1, <1>2, <1>4, <1>5 DEF SettingsInv, LockIsLoading
  <1>8. EnginesAreKnown'
    BY <1>1, <1>2, <1>3, <1>4, <1>5 DEF SettingsInv, TypeOK, EnginesAreKnown, Holding
  <1>9. CleanIsPresent'
    BY <1>1, <1>2, <1>3, <1>4, <1>5 DEF SettingsInv, CleanIsPresent, Holding, Active
  <1>10. EnginesFollow'
    BY <1>1, <1>2, <1>4, <1>5, RoutesStay DEF SettingsInv, EnginesFollow
  <1> QED
    BY <1>1, <1>6, <1>7, <1>8, <1>9, <1>10, RoutesStay DEF SettingsInv

LEMMA ReloadEndsStep ==
    ASSUME SettingsInv, NEW r \in Runs, ReloadEnds(r)
    PROVE  SettingsInv'
  <1>1. UNCHANGED <<table, settings, client, cache, lock, post, unapplied, envKey, changes, crashes>>
    BY DEF ReloadEnds, startVars
  <1>2. TypeOK /\ run[r] \in RunRecord /\ run[r].at = "reloading"
    BY RunIsTyped DEF SettingsInv, ReloadEnds
  <1>3. CASE UNCHANGED engine /\ Ends(r)
    BY <1>1, <1>2, <1>3, EndsStep DEF Active
  <1>4. CASE engine' = [engine EXCEPT ![run[r].eng].model = run[r].model] /\ Moves(r, "checked")
    <2>1. PICK e \in Runs : /\ e = run[r].eng /\ e \notin cache /\ engine[e] # None
                            /\ run[e].at \in Holding \cup {"ended"}
      BY <1>2 DEF SettingsInv, EnginesAreKnown, Holding
    <2> DEFINE eng == [engine[e] EXCEPT !.model = run[r].model]
               new == [run[r] EXCEPT !.at = "checked"]
    <2>2. eng \in Engines /\ eng # None /\ eng.type = engine[e].type /\ eng.name = engine[e].name
      <3>1. engine[e] \in Engines /\ run[r].model \in Models \cup {None}
        BY <1>2, <2>1 DEF TypeOK, RunRecord
      <3>2. eng \in Engines /\ eng.type = engine[e].type /\ eng.name = engine[e].name
        BY <3>1 DEF Engines
      <3> QED
        BY <3>2
    <2>3. engine' = [engine EXCEPT ![e] = eng]
      BY <1>2, <1>4, <2>1 DEF TypeOK
    <2>4. /\ new \in RunRecord /\ new.at = "checked"
          /\ new.eng = e /\ new.name = run[r].name
          /\ new.type = run[r].type /\ new.clean = run[r].clean
      BY <1>2, <2>1 DEF RunRecord, Active
    <2>5. run' = [run EXCEPT ![r] = new]
      BY <1>4 DEF Moves, Becomes
    <2> HIDE DEF new, eng
    <2>6. /\ run' \in [Runs -> RunRecord] /\ run'[r] = new
          /\ \A o \in Runs \ {r} : run'[o] = run[o]
      BY <1>2, <2>4, <2>5, RunMoves
    <2>7. /\ engine' \in [Runs -> Engines \cup {None}] /\ engine'[e] = eng
          /\ \A o \in Runs \ {e} : engine'[o] = engine[o]
      BY <1>2, <2>2, <2>3 DEF TypeOK
    <2>8. TypeOK' /\ AsksTyped'
      BY <1>1, <2>4, <2>6, <2>7 DEF SettingsInv, TypeOK, RunRecord, AsksTyped
    <2>9. LockIsLoading'
      BY <1>1, <1>2, <2>4, <2>6 DEF SettingsInv, LockIsLoading
    <2>10. run[e].at # "loading"
      BY <2>1 DEF Holding
    <2>11. EnginesAreKnown'
      BY <1>1, <1>2, <2>1, <2>2, <2>4, <2>6, <2>7, <2>10, SMTT(30) DEF SettingsInv, TypeOK, EnginesAreKnown, Holding
    <2>12. CleanIsPresent'
      BY <1>1, <1>2, <2>1, <2>4, <2>6 DEF SettingsInv, CleanIsPresent, Holding, Active
    <2>13. EnginesFollow'
      BY <1>1, <1>2, <2>1, <2>4, <2>6, <2>7, <2>10, RoutesStay DEF SettingsInv, EnginesFollow
    <2> QED
      BY <1>1, <2>8, <2>9, <2>11, <2>12, <2>13, RoutesStay DEF SettingsInv
  <1> QED
    BY <1>3, <1>4 DEF ReloadEnds

LEMMA RunSteps ==
    ASSUME SettingsInv, NEW r \in Runs, RunStep(r)
    PROVE  SettingsInv'
  <1>1. CASE LoadFails(r)
    BY <1>1, EndsStep DEF LoadFails, LockAfterFailure, startVars, Active
  <1>2. CASE Transcribes(r)
    BY <1>2, EndsStep DEF Transcribes, engineVars, startVars, Active
  <1> QED
    BY <1>1, <1>2, ReadsNameStep, FindsEngineStep, TakesLockStep, LoadEndsStep, ChecksModelStep,
       ReloadEndsStep DEF RunStep

LEMMA NextInv == SettingsInv /\ [Next]_vars => SettingsInv'
  <1> SUFFICES ASSUME SettingsInv, [Next]_vars PROVE SettingsInv'
    OBVIOUS
  <1>1. CASE UNCHANGED vars
    <2>1. UNCHANGED <<table, settings, client, post, unapplied, engine, cache, lock, run,
                      envKey, changes, crashes>>
      BY <1>1 DEF vars, engineVars, startVars
    <2>2. TypeOK'
      BY <2>1 DEF SettingsInv, TypeOK
    <2>3. AsksTyped' /\ LockIsLoading' /\ EnginesAreKnown'
      BY <2>1, EnginesStay
    <2>4. CleanIsPresent' /\ EnginesFollow'
      BY <2>1, RoutesStay DEF SettingsInv, CleanIsPresent, EnginesFollow
    <2> QED
      BY <2>1, <2>2, <2>3, <2>4, RoutesStay DEF SettingsInv
  <1> QED
    BY <1>1, PostStartsStep, PostKeyStep, PostFailsStep, PostRefreshesStep, PostUnloadsStep,
       DeleteStep, GenerateStep, ReadsTypeStep, RunSteps, CrashStep DEF Next, PostStep

LEMMA Invariance == Spec => []SettingsInv
  BY InitInv, NextInv, PTL DEF Spec

\* The object in use is what a restart would restore, GET shows no other value,
\* and no client uses a deleted API key, at every moment, in the middle of a POST
\* and after one that failed half-way too, with and without an API key in the
\* environment (get_settings, update_settings, delete_setting,
\* load_user_settings).
THEOREM SettingsAgree == Spec => []ShownIsUsed
  <1>1. SettingsInv => ShownIsUsed
    <2>1. SettingsInv => \A k \in Keys : settings[k] = Restored[k] /\ Shown(k) \in {settings[k], "unset"}
      BY DEF SettingsInv, TypeOK, TableIsUsed, Shown, Restored
    <2>2. SettingsInv /\ Shown("llm_api_key") = "unset" => settings["llm_api_key"] = "default"
      BY DEF SettingsInv, TypeOK, TableIsUsed, Shown, Keys, Values
    <2> QED
      BY <2>1, <2>2 DEF SettingsInv, KeyIsKept, ShownIsUsed
  <1> QED
    BY <1>1, Invariance, PTL

\* A run that began after the last change works with the engine and the model
\* the settings name, and minutes are asked for with the present key and
\* address, however many runs share, load, lose and reload engines meanwhile
\* (update_settings, get_asr, unload_all_asr, get_llm).
THEOREM ChangesTakeEffect == Spec => []NothingStaleIsUsed
  <1>1. SettingsInv => RunUsesPresentSettings
    <2> SUFFICES ASSUME SettingsInv, NEW r \in Runs, run[r].at \in {"has", "checked"},
                        run[r].clean, "asr" \notin unapplied
                 PROVE  /\ run[r].type = settings["asr_model_type"]
                        /\ run[r].name = settings["asr_model_name"]
                        /\ engine[run[r].eng].model \in {None, LoadedModel(run[r].type)}
      BY DEF RunUsesPresentSettings
    <2>1. /\ run[r].type = settings["asr_model_type"]
          /\ run[r].name = settings["asr_model_name"]
          /\ run[r].eng \in cache /\ post.touched = {}
      BY DEF SettingsInv, CleanIsPresent, Holding
    <2>2. run[r].eng \in Runs /\ engine[run[r].eng].type = run[r].type
      BY DEF SettingsInv, EnginesAreKnown, Holding
    <2>3. engine[run[r].eng].model = LoadedModel(engine[run[r].eng].type)
      BY <2>1, <2>2 DEF SettingsInv, EnginesFollow
    <2> QED
      BY <2>1, <2>2, <2>3
  <1>2. SettingsInv => ClientIsPresent
    BY DEF SettingsInv, ClientFollows, ClientIsPresent
  <1> QED
    BY <1>1, <1>2, Invariance, PTL DEF NothingStaleIsUsed

=============================================================================
