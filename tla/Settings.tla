------------------------------- MODULE Settings -------------------------------
(***************************************************************************)
(* The user's settings and what is built from them: the table in the       *)
(* database (services/store.py), the settings object (config.py), the      *)
(* language-model client (services/llm.py) and the speech engines          *)
(* (services/asr.py), under the settings routes (routers/settings.py).     *)
(*                                                                         *)
(* The routes run on the event loop and pipeline runs in threads of their  *)
(* own that read the settings without a lock, so a run can come between    *)
(* any two keys of one POST.                                               *)
(***************************************************************************)
EXTENDS Naturals, FiniteSets

CONSTANTS
    Runs,        \* pipeline runs, each from the reading of the settings on
    MaxChanges,  \* bound of the model: POSTs and DELETEs
    MaxKeys,     \* bound of the model: keys of one POST
    Changed,     \* bound of the model: the keys that requests name
    MaxCrashes,  \* bound of the model: crashes of the server
    None         \* no value: a missing row, engine, client or model

VARIABLES
    table,      \* app_settings: the stored value of a key, or None
    settings,   \* the settings object
    client,     \* _llm_instance
    cache,      \* _asr_cache, as the runs that made its engines
    engine,     \* the engine a run has made: its key and model
    lock,       \* the holder of _asr_lock
    run,        \* the runs
    post,       \* the POST under way
    unapplied,  \* history: groups whose values changed and nothing was rebuilt
    envKey,     \* the server was started with MTT_LLM_API_KEY in its environment
    changes,    \* POSTs and DELETEs so far
    crashes     \* crashes so far

engineVars == <<cache, engine, lock>>
startVars  == <<envKey, changes, crashes>>
vars == <<table, settings, client, engineVars, run, post, unapplied, startVars>>

(***************************************************************************)
(* Two values stand for each key's: the default, and another one.  The     *)
(* default API key is that of the environment, or the empty one; the       *)
(* default engine is SenseVoice and the other Paraformer; asr_needs_punc   *)
(* is off by default.                                                      *)
(***************************************************************************)
Keys   == {"llm_base_url", "llm_api_key", "asr_model_type", "asr_model_name",
           "asr_needs_punc"}
Values == {"default", "other"}
Models == {"punc", "plain"}

Clients == [url : Values, key : Values]
Engines == [type : Values, name : Values, model : Models \cup {None}]

ASSUME SettingsAssumption ==
    /\ {MaxChanges, MaxKeys, MaxCrashes} \subseteq Nat /\ Changed \subseteq Keys
    /\ None \notin Runs \cup Values \cup Models \cup Clients \cup Engines

\* The order of the fields of SettingsUpdate.
KeyOrder == [llm_base_url |-> 1, llm_api_key |-> 2, asr_model_type |-> 3,
             asr_model_name |-> 4, asr_needs_punc |-> 5]

\* Mutant: asr_needs_punc is not taken for a setting of the speech engine.
PuncUntouched(k) ==
    CASE k \in {"llm_base_url", "llm_api_key"} -> {"llm"}
      [] k \in {"asr_model_type", "asr_model_name"} -> {"asr"}
      [] OTHER -> {}

\* What a change of a key makes out of date: the client, or the engines.
Touched(k) == IF k \in {"llm_base_url", "llm_api_key"} THEN {"llm"} ELSE {"asr"}

\* A field of a request: a value, or "blank" for null or an empty string.
Posted(k) == {"other", "blank"} \cup IF k = "llm_api_key" THEN {} ELSE {"default"}

Bodies ==
    UNION {{b \in [ks -> Values \cup {"blank"}] : \A k \in ks : b[k] \in Posted(k)} :
              ks \in {s \in SUBSET Changed : Cardinality(s) \in 1..MaxKeys}}

\* asr_needs_punc goes with the posted model type, unless it is posted too.
WithPunc(b) ==
    IF "asr_model_type" \in DOMAIN b /\ "asr_needs_punc" \notin DOMAIN b
      THEN [k \in DOMAIN b \cup {"asr_needs_punc"} |->
               IF k # "asr_needs_punc" THEN b[k]
               ELSE IF b["asr_model_type"] = "other" THEN "other" ELSE "default"]
      ELSE b

\* The keys and values a POST goes through; blank fields are left as they are.
ToDo(b) ==
    {[key |-> k, value |-> b[k]] : k \in {k \in DOMAIN b : b[k] # "blank"}}

\* An API key that is not the empty one.
IsKey(v) == v # "default" \/ envKey

Present == [url |-> settings["llm_base_url"], key |-> settings["llm_api_key"]]

\* The punctuation model of an engine that is loaded now.
LoadedModel(type) ==
    IF type = "other" \/ settings["asr_needs_punc"] = "other" THEN "punc" ELSE "plain"

IdlePost == [at |-> "idle", todo |-> {}, touched |-> {}]
NewRun   == [at |-> "new", type |-> None, name |-> None, eng |-> None,
             model |-> None, clean |-> FALSE]

Init ==
    /\ table = [k \in Keys |-> None]
    /\ settings = [k \in Keys |-> "default"]
    /\ envKey \in BOOLEAN
    /\ client = IF envKey THEN Present ELSE None
    /\ cache = {} /\ engine = [r \in Runs |-> None] /\ lock = None
    /\ run = [r \in Runs |-> NewRun]
    /\ post = IdlePost /\ unapplied = {}
    /\ changes = 0 /\ crashes = 0

-----------------------------------------------------------------------------
(* The routes: POST /settings, DELETE /settings/{key}, POST /generate.     *)

\* A run that has seen the settings of before is no witness for those of now.
Unclean == [r \in Runs |-> [run[r] EXCEPT !.clean = FALSE]]

PostStarts(b) ==
    /\ post.at = "idle" /\ changes < MaxChanges
    /\ changes' = changes + 1
    /\ post' = [IdlePost EXCEPT !.at = "keys", !.todo = ToDo(WithPunc(b))]
    /\ UNCHANGED <<table, settings, client, engineVars, run, unapplied, envKey, crashes>>

\* One key under settings_lock: stored, then set.
PostKey ==
    /\ post.at = "keys"
    /\ \E next \in post.todo :
          /\ \A other \in post.todo : KeyOrder[next.key] <= KeyOrder[other.key]
          /\ table' = [table EXCEPT ![next.key] = next.value]
          /\ settings' = [settings EXCEPT ![next.key] = next.value]
          /\ post' = [post EXCEPT !.todo = @ \ {next}, !.touched = @ \cup Touched(next.key)]
    /\ run' = Unclean
    /\ UNCHANGED <<client, engineVars, unapplied, startVars>>

\* The store raises: the keys before stay changed, and nothing is rebuilt.
PostFails ==
    /\ post.at = "keys" /\ post.todo # {}
    /\ post' = IdlePost
    /\ unapplied' = unapplied \cup post.touched
    /\ UNCHANGED <<table, settings, client, engineVars, run, startVars>>

\* After the keys: the client is rebuilt if there is an API key.
PostRefreshes ==
    /\ post.at = "keys" /\ post.todo = {}
    /\ IF "llm" \in post.touched /\ IsKey(settings["llm_api_key"])
         THEN client' = Present /\ unapplied' = unapplied \ {"llm"}
         ELSE UNCHANGED <<client, unapplied>>
    /\ post' = IF "asr" \in post.touched THEN [post EXCEPT !.at = "unload"] ELSE IdlePost
    /\ UNCHANGED <<table, settings, engineVars, run, startVars>>

\* unload_all_asr: the event loop waits for the lock, for as long as a run loads.
PostUnloads ==
    /\ post.at = "unload" /\ lock = None
    /\ engine' = [r \in Runs |-> IF r \in cache THEN [engine[r] EXCEPT !.model = None]
                                 ELSE engine[r]]
    /\ cache' = {}
    /\ post' = IdlePost
    /\ unapplied' = unapplied \ {"asr"}
    /\ UNCHANGED <<table, settings, client, lock, run, startVars>>

\* Mutant: a deleted key keeps its value until the next start.
KeptValue(k) == settings[k]

\* The value of a deleted key: the default of its SETTING_SPECS entry.
ResetValue(k) == "default"

\* DELETE rebuilds the client, and leaves the engines that are loaded.
Delete(k) ==
    /\ post.at = "idle" /\ changes < MaxChanges
    /\ changes' = changes + 1
    /\ table' = [table EXCEPT ![k] = None]
    /\ settings' = [settings EXCEPT ![k] = ResetValue(k)]
    /\ IF Touched(k) = {"llm"}
         THEN client' = Present' /\ unapplied' = unapplied \ {"llm"}
         ELSE unapplied' = unapplied \cup {"asr"} /\ UNCHANGED client
    /\ run' = Unclean
    /\ UNCHANGED <<engineVars, post, envKey, crashes>>

\* get_llm builds the client that the first request for minutes finds missing.
Generate ==
    /\ post.at = "idle" /\ client = None
    /\ client' = Present
    /\ UNCHANGED <<table, settings, engineVars, run, post, unapplied, startVars>>

-----------------------------------------------------------------------------
(* A run: it reads type and name, asks for the engine, transcribes.        *)

Becomes(r, new) == run' = [run EXCEPT ![r] = new]
Moves(r, at) == Becomes(r, [run[r] EXCEPT !.at = at])

\* A run that is over holds nothing any more.
Over == [NewRun EXCEPT !.at = "ended"]
Ends(r) == Becomes(r, Over)

ReadsType(r) ==
    /\ run[r].at = "new"
    /\ Becomes(r, [run[r] EXCEPT !.at = "typed", !.type = settings["asr_model_type"],
                                 !.clean = (post.at = "idle")])
    /\ UNCHANGED <<table, settings, client, engineVars, post, unapplied, startVars>>

ReadsName(r) ==
    /\ run[r].at = "typed"
    /\ Becomes(r, [run[r] EXCEPT !.at = "asks", !.name = settings["asr_model_name"]])
    /\ UNCHANGED <<table, settings, client, engineVars, post, unapplied, startVars>>

\* The cached engines with the key a run asks for.
Found(r) == {e \in cache : engine[e].type = run[r].type /\ engine[e].name = run[r].name}

FindsEngine(r) ==
    /\ run[r].at = "asks"
    /\ \E e \in Found(r) : Becomes(r, [run[r] EXCEPT !.at = "has", !.eng = e])
    /\ UNCHANGED <<table, settings, client, engineVars, post, unapplied, startVars>>

\* The lock is taken, the cache asked once more, and the load begins.
TakesLock(r) ==
    /\ run[r].at = "asks" /\ Found(r) = {} /\ lock = None
    /\ lock' = r
    /\ engine' = [engine EXCEPT ![r] = [type |-> run[r].type, name |-> run[r].name,
                                        model |-> LoadedModel(run[r].type)]]
    /\ Moves(r, "loading")
    /\ UNCHANGED <<table, settings, client, cache, post, unapplied, startVars>>

LoadEnds(r) ==
    /\ run[r].at = "loading"
    /\ lock' = None
    /\ cache' = cache \cup {r}
    /\ Becomes(r, [run[r] EXCEPT !.at = "has", !.eng = r])
    /\ UNCHANGED <<table, settings, client, engine, post, unapplied, startVars>>

\* Mutant: an exception leaves the lock taken.
LockKept == lock

\* "with _asr_lock" lets go of it on the way out.
LockAfterFailure == None

LoadFails(r) ==
    /\ run[r].at = "loading"
    /\ lock' = LockAfterFailure
    /\ Ends(r)
    /\ UNCHANGED <<table, settings, client, cache, engine, post, unapplied, startVars>>

\* An engine that was unloaded meanwhile is loaded again, without the lock.
ChecksModel(r) ==
    /\ run[r].at = "has"
    /\ IF engine[run[r].eng].model = None
         THEN Becomes(r, [run[r] EXCEPT !.at = "reloading",
                                        !.model = LoadedModel(engine[run[r].eng].type)])
         ELSE Moves(r, "checked")
    /\ UNCHANGED <<table, settings, client, engineVars, post, unapplied, startVars>>

ReloadEnds(r) ==
    /\ run[r].at = "reloading"
    /\ \/ /\ engine' = [engine EXCEPT ![run[r].eng].model = run[r].model]
          /\ Moves(r, "checked")
       \/ UNCHANGED engine /\ Ends(r)
    /\ UNCHANGED <<table, settings, client, cache, lock, post, unapplied, startVars>>

\* model.generate, which fails if the engine was unloaded since the check.
Transcribes(r) ==
    /\ run[r].at = "checked"
    /\ Ends(r)
    /\ UNCHANGED <<table, settings, client, engineVars, post, unapplied, startVars>>

-----------------------------------------------------------------------------
\* What load_user_settings makes of the table.
Restored == [k \in Keys |-> IF table[k] = None THEN "default" ELSE table[k]]

\* The server is killed and started again: runs that had begun are lost.
Crash ==
    /\ crashes < MaxCrashes
    /\ crashes' = crashes + 1
    /\ settings' = Restored
    /\ client' = IF IsKey(settings'["llm_api_key"]) THEN Present' ELSE None
    /\ cache' = {} /\ lock' = None
    /\ run' = [r \in Runs |-> IF run[r].at = "new" THEN run[r]
                              ELSE Over]
    /\ post' = IdlePost /\ unapplied' = {}
    /\ engine' = [r \in Runs |-> None]
    /\ UNCHANGED <<table, envKey, changes>>

PostStep == PostKey \/ PostFails \/ PostRefreshes \/ PostUnloads

RunStep(r) ==
    ReadsName(r) \/ FindsEngine(r) \/ TakesLock(r) \/ LoadEnds(r) \/ LoadFails(r)
    \/ ChecksModel(r) \/ ReloadEnds(r) \/ Transcribes(r)

Next ==
    \/ \E b \in Bodies : PostStarts(b)
    \/ PostStep
    \/ \E k \in Changed : Delete(k)
    \/ Generate
    \/ \E r \in Runs : ReadsType(r) \/ RunStep(r)
    \/ Crash

Spec == Init /\ [][Next]_vars

\* The handler and the threads go on; loads and transcriptions end.
FairSpec == Spec /\ WF_vars(PostStep) /\ \A r \in Runs : WF_vars(RunStep(r))

-----------------------------------------------------------------------------
(* Properties.                                                             *)

Active == {"typed", "asks", "loading", "has", "checked", "reloading"}

TypeOK ==
    /\ table \in [Keys -> Values \cup {None}] /\ settings \in [Keys -> Values]
    /\ client \in Clients \cup {None}
    /\ cache \subseteq Runs /\ lock \in Runs \cup {None}
    /\ engine \in [Runs -> Engines \cup {None}]
    /\ run \in [Runs -> [at : Active \cup {"new", "ended"}, type : Values \cup {None},
                         name : Values \cup {None}, eng : Runs \cup {None},
                         model : Models \cup {None}, clean : BOOLEAN]]
    /\ post \in [at : {"idle", "keys", "unload"}, touched : SUBSET {"llm", "asr"},
                 todo : SUBSET [key : Keys, value : Values]]
    /\ unapplied \subseteq {"llm", "asr"} /\ envKey \in BOOLEAN
    /\ changes \in 0..MaxChanges /\ crashes \in 0..MaxCrashes

\* GET /settings: the stored value, or the one in use; of the API key only
\* whether one is stored, so a key of the environment is used and shown as unset.
Shown(k) ==
    IF table[k] # None THEN table[k] ELSE IF k = "llm_api_key" THEN "unset" ELSE settings[k]

\* What is in use is what a restart would bring back, in the middle of a POST
\* and after one that failed half-way too, and GET shows no other value.  A key
\* that was deleted is not used by any client: "Reset the runtime object too,
\* otherwise generation keeps using the deleted value while GET /settings
\* reports the setting as gone".
ShownIsUsed ==
    /\ TypeOK
    /\ \A k \in Keys : settings[k] = Restored[k] /\ Shown(k) \in {settings[k], "unset"}
    /\ Shown("llm_api_key") = "unset" /\ client # None => client.key = "default"

\* "The environment variable takes precedence over the database" (CONTRIBUTING.md:
\* 100): a server that starts with a key in its environment uses that key.  It
\* does not hold: load_user_settings puts the stored key over it.
EnvironmentKeyWins ==
    [][crashes' # crashes /\ envKey => settings'["llm_api_key"] = "default"]_vars

\* A run that begins after a change was answered, and meets no other, works
\* with the engine and the model the settings name, however many runs, loads
\* and changes there were before.  Not so after a POST that failed half-way, or
\* a DELETE, which leave the engines as they were.
RunUsesPresentSettings ==
    \A r \in Runs :
        run[r].at \in {"has", "checked"} /\ run[r].clean /\ "asr" \notin unapplied =>
          /\ run[r].type = settings["asr_model_type"]
          /\ run[r].name = settings["asr_model_name"]
          /\ engine[run[r].eng].model \in {None, LoadedModel(run[r].type)}

\* Minutes are never asked for with an API key or an address that was replaced:
\* "a deleted llm_api_key can't keep serving generate requests".
ClientIsPresent ==
    client # None /\ post.at # "keys" /\ "llm" \notin unapplied =>
        ~IsKey(client.key) \/ client = Present

NothingStaleIsUsed == RunUsesPresentSettings /\ ClientIsPresent

\* No POST hangs on the lock of a load, no run on that of another run: what was
\* begun ends.  (A POST that waits holds up the whole event loop.)
Quiet == post.at = "idle" /\ \A r \in Runs : run[r].at \notin Active
EverythingEnds == ~Quiet ~> Quiet
=============================================================================
