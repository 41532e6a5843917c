----------------------------- MODULE LlmSettings -----------------------------
(***************************************************************************)
(* The model that runs started from the dashboard use: the page of LLM     *)
(* settings (dashboard/pages/8), the page that triggers runs               *)
(* (dashboard/pages/5), the settings (config.py) and build_model           *)
(* (models.py).                                                            *)
(*                                                                         *)
(* All sessions live in one process.  Each runs its scripts in a thread of *)
(* its own, and they share the environment and the one entry that          *)
(* lru_cache keeps for get_settings.                                       *)
(***************************************************************************)
EXTENDS Naturals

CONSTANTS
    Session,
    LocalModels, RouterModels, HostedModels, \* specs "ollama:", "openrouter:", all others
    Url,          \* values of OLLAMA_BASE_URL, None being the default address
    DefaultModel, \* what Settings takes without DEEPAGENT_MODEL
    DefaultShown, \* what the pages show without it
    StartModels,  \* DEEPAGENT_MODEL when the process starts, or None
    MaxApplies,   \* bound: how often settings are submitted
    MaxCuts,      \* bound: how often a user interrupts a submission
    None

Models == LocalModels \cup RouterModels \cup HostedModels

\* PROVIDERS, and what the specs start with.  All but Ollama have a key.
Provider(m) == CASE m \in LocalModels  -> "ollama"
                 [] m \in RouterModels -> "openrouter"
                 [] m \in HostedModels -> "hosted"
Keyed == {"openrouter", "hosted"}

ASSUME LlmAssumptions ==
    /\ DefaultModel \in LocalModels /\ DefaultShown \in HostedModels
    /\ StartModels \subseteq Models \cup {None}
    /\ None \notin Models \cup Url \cup Session
    /\ MaxApplies \in Nat /\ MaxCuts \in Nat

VARIABLES
    env,     \* os.environ: DEEPAGENT_MODEL, the keys that are set, OLLAMA_BASE_URL
    cache,   \* what lru_cache keeps of get_settings
    shown,   \* per session: st.session_state["llm.spec"]
    pc,      \* per session: where its script is
    form,    \* per session: the fields of page 8
    banner,  \* per session: the model page 5 shows, and whether it misses a key
    hand,    \* per session: the Settings its run has got
    lookups, \* per session: calls of get_settings its run has still to make
    ver,     \* history: how often DEEPAGENT_MODEL was written
    author,  \* history: the session that wrote it last, or None
    settled, \* history: how often before the cache was last cleared
    floor,   \* per session, history: settled when its run began
    clears,  \* history: how often the cache was cleared
    begun,   \* per session, history: clears when its call of get_settings missed
    torn,    \* history: a submission was cut since the cache was last cleared
    left     \* submissions and cuts left

vars == <<env, cache, shown, pc, form, banner, hand, lookups, ver, author, settled,
          floor, clears, begun, torn, left>>
caching == <<cache, settled, clears, torn>>
writes == <<ver, author>>
run == <<banner, hand, lookups, floor, begun>>

NoSettings == [model |-> DefaultModel, url |-> None, ver |-> 0, late |-> FALSE]
NoBanner == [model |-> DefaultShown, warned |-> FALSE]
NoForm == [drawn |-> "ollama", model |-> DefaultModel, key |-> FALSE, url |-> None]

Init ==
    /\ env \in [model : StartModels, keys : SUBSET Keyed, url : {None}]
    /\ cache = None
    /\ shown = [s \in Session |-> None] /\ pc = [s \in Session |-> "idle"]
    /\ form = [s \in Session |-> NoForm]
    /\ banner = [s \in Session |-> NoBanner]
    /\ hand = [s \in Session |-> NoSettings] /\ lookups = [s \in Session |-> 0]
    /\ floor = [s \in Session |-> 0] /\ begun = [s \in Session |-> 0]
    /\ ver = 0 /\ author = None /\ settled = 0 /\ clears = 0 /\ torn = FALSE
    /\ left = [applies |-> MaxApplies, cuts |-> MaxCuts]

Settings == [model : Models, url : Url \cup {None}, ver : 0 .. MaxApplies, late : BOOLEAN]

EnvTypeOK ==
    /\ env \in [model : Models \cup {None}, keys : SUBSET Keyed, url : Url \cup {None}]
    /\ cache \in Settings \cup {None}
    /\ settled \in 0 .. ver /\ ver \in 0 .. MaxApplies /\ clears \in 0 .. ver
    /\ torn \in BOOLEAN /\ author \in Session \cup {None}
    /\ left \in [applies : 0 .. MaxApplies, cuts : 0 .. MaxCuts]

SessionTypeOK ==
    /\ shown \in [Session -> Models \cup {None}]
    /\ pc \in [Session -> {"idle", "form", "model", "spec", "secret", "clear", "lookup",
                          "model?", "url?", "store", "build", "running", "keyless"}]
    /\ form \in [Session -> [drawn : Keyed \cup {"ollama"}, model : Models, key : BOOLEAN,
                              url : Url \cup {None}]]
    /\ banner \in [Session -> [model : Models, warned : BOOLEAN]]
    /\ hand \in [Session -> Settings] /\ lookups \in [Session -> 0 .. 3]
    /\ floor \in [Session -> 0 .. MaxApplies] /\ begun \in [Session -> 0 .. MaxApplies]

\* The types of the variables, and that the cache is never cleared more often than
\* the model was written.
LlmTypeOK == EnvTypeOK /\ SessionTypeOK

Or(x, default) == IF x = None THEN default ELSE x
Goto(s, from, to) == pc[s] = from /\ pc' = [pc EXCEPT ![s] = to]

\* The model that the pages show to a session.
current_spec(s) == Or(Or(shown[s], env.model), DefaultShown)

-----------------------------------------------------------------------------
(* Page 8.                                                                 *)

\* The form is drawn with the fields of the current provider.
OpenForm(s) ==
    /\ Goto(s, "idle", "form")
    /\ form' = [form EXCEPT ![s] = [NoForm EXCEPT !.drawn = Provider(current_spec(s))]]
    /\ UNCHANGED <<env, caching, shown, run, writes, left>>

LeaveForm(s) ==
    /\ Goto(s, "form", "idle")
    /\ form' = [form EXCEPT ![s] = NoForm]
    /\ UNCHANGED <<env, caching, shown, run, writes, left>>

\* Apply.  The fields of another provider than the one that was drawn are new
\* widgets: its key is empty, and the address is the one of the environment.
Submit(s, m, key, url) ==
    /\ Goto(s, "form", "model")
    /\ left.applies > 0 /\ left' = [left EXCEPT !.applies = @ - 1]
    /\ key => Provider(m) \in Keyed /\ form[s].drawn = Provider(m)
    /\ IF Provider(m) = "ollama" THEN url = env.url \/ form[s].drawn = "ollama"
                               ELSE url = None
    /\ form' = [form EXCEPT ![s] = [@ EXCEPT !.model = m, !.key = key, !.url = url]]
    /\ UNCHANGED <<env, caching, shown, run, writes>>

WriteModel(s) ==
    /\ Goto(s, "model", "spec")
    /\ env' = [env EXCEPT !.model = form[s].model]
    /\ ver' = ver + 1 /\ author' = s
    /\ UNCHANGED <<caching, shown, form, run, left>>

\* Mutant: the session keeps the model it has applied first.
WriteSpecOnce(s) ==
    /\ Goto(s, "spec", "secret")
    /\ shown' = [shown EXCEPT ![s] = Or(@, form[s].model)]
    /\ UNCHANGED <<env, caching, form, run, writes, left>>

\* st.session_state["llm.spec"].
WriteSpec(s) ==
    /\ Goto(s, "spec", "secret")
    /\ shown' = [shown EXCEPT ![s] = form[s].model]
    /\ UNCHANGED <<env, caching, form, run, writes, left>>

\* The key, if one was typed, or Ollama's address.
WriteSecret(s) ==
    /\ Goto(s, "secret", "clear")
    /\ env' = [env EXCEPT
                 !.keys = IF form[s].key THEN @ \cup {Provider(form[s].model)} ELSE @,
                 !.url = IF Provider(form[s].model) = "ollama" THEN form[s].url ELSE @]
    /\ UNCHANGED <<caching, shown, form, run, writes, left>>

\* Mutant: the settings are kept.
ClearForgotten(s) ==
    /\ Goto(s, "clear", "idle")
    /\ cache' = cache /\ settled' = ver /\ clears' = clears + 1 /\ torn' = FALSE
    /\ form' = [form EXCEPT ![s] = NoForm]
    /\ UNCHANGED <<env, shown, run, writes, left>>

\* Mutant: the settings are only dropped for another model.
ClearForModel(s) ==
    /\ Goto(s, "clear", "idle")
    /\ cache' = IF cache # None /\ cache.model = env.model THEN cache ELSE None
    /\ settled' = ver /\ clears' = clears + 1 /\ torn' = FALSE
    /\ form' = [form EXCEPT ![s] = NoForm]
    /\ UNCHANGED <<env, shown, run, writes, left>>

\* get_settings.cache_clear().
Clear(s) ==
    /\ Goto(s, "clear", "idle")
    /\ cache' = None /\ settled' = ver /\ clears' = clears + 1 /\ torn' = FALSE
    /\ form' = [form EXCEPT ![s] = NoForm]
    /\ UNCHANGED <<env, shown, run, writes, left>>

\* The user does something else.  The script ends where it next touches the
\* session: before llm.spec is written, or before the marker of a key.
Cut(s) ==
    /\ \/ Goto(s, "spec", "idle")
       \/ form[s].key /\ Goto(s, "clear", "idle")
    /\ torn' = TRUE
    /\ left.cuts > 0 /\ left' = [left EXCEPT !.cuts = @ - 1]
    /\ form' = [form EXCEPT ![s] = NoForm]
    /\ UNCHANGED <<env, cache, settled, clears, shown, run, writes>>

-----------------------------------------------------------------------------
(* Page 5 and the run it starts in its own thread.                         *)

\* The keys page 5 looks for: _key_env_map has none of OpenRouter.
MissesKey(m) == Provider(m) = "hosted" /\ "hosted" \notin env.keys

\* The page is drawn, with the model of the session and the missing key, and the
\* run begins: fix_issue, build_agent and build_model each call get_settings.
Trigger(s) ==
    /\ Goto(s, "idle", "lookup")
    /\ LET m == current_spec(s)
       IN banner' = [banner EXCEPT ![s] = [model |-> m, warned |-> MissesKey(m)]]
    /\ lookups' = [lookups EXCEPT ![s] = 3]
    /\ floor' = [floor EXCEPT ![s] = settled]
    /\ UNCHANGED <<env, caching, shown, form, hand, begun, writes, left>>

\* A call of get_settings has its result.
Got(s, from, settings) ==
    /\ Goto(s, from, IF lookups[s] > 1 THEN "lookup" ELSE "build")
    /\ lookups' = [lookups EXCEPT ![s] = @ - 1]
    /\ hand' = [hand EXCEPT ![s] = settings]

\* get_settings with an entry in the cache.
Hit(s) ==
    /\ cache # None /\ Got(s, "lookup", cache)
    /\ UNCHANGED <<env, caching, shown, form, banner, floor, begun, writes, left>>

\* get_settings without: Settings() reads one variable after the other.
Miss(s) ==
    /\ cache = None /\ Goto(s, "lookup", "model?")
    /\ begun' = [begun EXCEPT ![s] = clears]
    /\ UNCHANGED <<env, caching, shown, form, banner, hand, lookups, floor, writes, left>>

ReadModel(s) ==
    /\ Goto(s, "model?", "url?")
    /\ hand' = [hand EXCEPT ![s] = [NoSettings EXCEPT !.model = Or(env.model, DefaultModel),
                                                      !.ver = ver]]
    /\ UNCHANGED <<env, caching, shown, form, banner, lookups, floor, begun, writes, left>>

ReadUrl(s) ==
    /\ Goto(s, "url?", "store")
    /\ hand' = [hand EXCEPT ![s].url = env.url]
    /\ UNCHANGED <<env, caching, shown, form, banner, lookups, floor, begun, writes, left>>

\* lru_cache keeps the result if there is still none, whatever happened to the
\* cache in the meantime.
Store(s) ==
    /\ Got(s, "store", hand[s])
    /\ cache' = IF cache = None THEN [hand[s] EXCEPT !.late = begun[s] < clears] ELSE cache
    /\ UNCHANGED <<env, settled, clears, torn, shown, form, banner, floor, begun, writes, left>>

\* build_model: the key of OpenRouter must be there, and the library may ask for
\* that of a hosted model.
Build(s) ==
    /\ \/ /\ Provider(hand[s].model) \in Keyed \ env.keys
          /\ Goto(s, "build", "keyless")
       \/ /\ "openrouter" \in env.keys \/ Provider(hand[s].model) # "openrouter"
          /\ Goto(s, "build", "running")
    /\ UNCHANGED <<env, caching, shown, form, run, writes, left>>

\* The run returns or has raised; page 5 shows what came of it.
RunEnds(s) ==
    /\ pc[s] \in {"lookup", "build", "running", "keyless"} /\ Goto(s, pc[s], "idle")
    /\ banner' = [banner EXCEPT ![s] = NoBanner] /\ hand' = [hand EXCEPT ![s] = NoSettings]
    /\ lookups' = [lookups EXCEPT ![s] = 0]
    /\ floor' = [floor EXCEPT ![s] = 0] /\ begun' = [begun EXCEPT ![s] = 0]
    /\ UNCHANGED <<env, caching, shown, form, writes, left>>

-----------------------------------------------------------------------------
Next ==
    \E s \in Session :
        \/ OpenForm(s) \/ LeaveForm(s)
        \/ \E m \in Models, key \in BOOLEAN, url \in Url \cup {None} : Submit(s, m, key, url)
        \/ WriteModel(s) \/ WriteSpec(s) \/ WriteSecret(s) \/ Clear(s) \/ Cut(s)
        \/ Trigger(s) \/ Hit(s) \/ Miss(s) \/ ReadModel(s) \/ ReadUrl(s) \/ Store(s)
        \/ Build(s) \/ RunEnds(s)

Spec == Init /\ [][Next]_vars

-----------------------------------------------------------------------------
(* Properties.                                                             *)

\* Nobody is between the first write of a submission and its last step.
Quiet == \A s \in Session : pc[s] \notin {"spec", "secret", "clear"}

\* A run is built with a model that is at least as new as every submission that
\* was over when the run began, unless its Settings were kept by a call of
\* get_settings that a submission overtook.
RunsFollowSettings ==
    \A s \in Session : pc[s] = "running" => hand[s].ver >= floor[s] \/ hand[s].late

\* Outside of submissions what is kept is the environment, the model together
\* with its address, unless a call of get_settings was overtaken or a submission
\* was cut.
CacheCurrent ==
    Quiet /\ cache # None /\ ~torn
        => \/ cache.late
           \/ cache.model = Or(env.model, DefaultModel) /\ cache.url = env.url

\* The model was configured, and last by s if s has applied one; what was
\* submitted since s began its run, or was cut or overtaken, is left aside.
OwnSettings(s) ==
    /\ env.model # None /\ (shown[s] = None \/ author = s)
    /\ floor[s] = ver /\ ~torn /\ ~hand[s].late

\* "Current LLM" and "The chosen provider needs ... to be set" (page 5, lines 53
\* and 66): as long as the settings are those of its own session, or nobody's,
\* a run uses the model that its page shows, and does not fail for a key that its
\* page did not miss, but for the one of OpenRouter, of which it does not know.
ShownIsUsed ==
    \A s \in Session : OwnSettings(s) =>
        /\ pc[s] = "running" => hand[s].model = banner[s].model
        /\ pc[s] = "keyless" /\ Provider(hand[s].model) # "openrouter" => banner[s].warned
=============================================================================
