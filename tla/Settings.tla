------------------------------- MODULE Settings -------------------------------
(***************************************************************************)
(* The settings of the SOC: soc-api keeps them in SETTINGS_STATE, a thread *)
(* loads them from the Redis hash stegnar:settings at start, settings_post *)
(* changes both copies, and the retention worker deletes old events by the *)
(* one in memory.  The router and the gateway read the one in Redis.       *)
(*                                                                         *)
(* A value is a number, or Bad, which int() does not take (the settings    *)
(* page sends null for an empty field).                                    *)
(***************************************************************************)
EXTENDS Integers, Sequences, FiniteSets

CONSTANTS
    Post,           \* requests to settings_post, from 1 up
    PostKey,        \* the setting each one changes
    PostValue,      \* and its new value
    Default,        \* SETTINGS_STATE in the source
    Stored,         \* hashes Redis may hold when soc-api first starts
    Bad,            \* a value that is not a number
    MaxRestarts,    \* bound: restarts of soc-api
    Upsets          \* what goes wrong: Redis calls fail, eviction

\* In the order of SETTINGS_STATE, which is that of the hash.
KeyOrder == <<"threshold", "days", "scans">>
Key == {KeyOrder[i] : i \in DOMAIN KeyOrder}

ASSUME SettingsAssumption ==
    /\ Post \subseteq Nat \ {0}
    /\ PostKey \in [Post -> Key] /\ PostValue \in [Post -> Int \cup {Bad}]
    /\ Default \in [Key -> Nat]
    /\ Bad \notin Int
    /\ Stored \subseteq [Key -> Int \cup {Bad}]
    /\ MaxRestarts \in Nat
    /\ Upsets \subseteq {"redis", "evict"}

VARIABLES
    settings,   \* SETTINGS_STATE
    stored,     \* whether Redis holds the hash
    hash,       \* its fields
    loader,     \* where _init_settings stands
    loading,    \* what it has read
    post,       \* where each request stands
    snap,       \* the mapping each request is about to store
    cleanup,    \* the last cleanup: the days it used and those it should have
    restarts,   \* restarts of soc-api
    sole,       \* history: the thread that changes settings alone, or Nobody
    apart       \* history: the last change may have left the copies different

settingsVars ==
    <<settings, stored, hash, loader, loading, post, snap, cleanup, restarts, sole, apart>>

Nobody == -1
Loader == 0

NoCleanup == [days |-> 0, wanted |-> 0]

\* soc-api starts.
ColdStart ==
    /\ settings = Default
    /\ \/ stored = FALSE /\ hash = Default
       \/ stored = TRUE /\ hash \in Stored
    /\ loader = "read" /\ restarts = 0
    /\ sole = Loader /\ apart = TRUE

\* It has been up for a while and is not restarted.
Up ==
    /\ settings = Default
    /\ stored = TRUE /\ hash = Default
    /\ loader = "done" /\ restarts = MaxRestarts
    /\ sole = Nobody /\ apart = FALSE

\* The requests in P will be made.
SettingsInit(P) ==
    /\ loading = Default /\ cleanup = NoCleanup
    /\ post = [p \in Post |-> IF p \in P THEN "new" ELSE "done"]
    /\ snap = [p \in Post |-> Default]

\* Threads that are changing the settings.
Busy == {p \in Post : post[p] \in {"set", "store"}} \cup
        IF loader = "done" THEN {} ELSE {Loader}

-----------------------------------------------------------------------------
(* _init_settings                                                          *)

LoadRead ==
    /\ loader = "read"
    /\ loading' = hash
    /\ loader' = IF stored THEN "adopt" ELSE "defaults"
    /\ UNCHANGED <<settings, stored, hash, post, snap, cleanup, restarts, sole, apart>>

\* int(v) raises at the first value that is no number; what comes after it in
\* the hash is not adopted.
Adopted(k) ==
    IF \E i, j \in DOMAIN KeyOrder : j <= i /\ KeyOrder[i] = k /\ loading[KeyOrder[j]] = Bad
    THEN settings[k] ELSE loading[k]

Adopt ==
    /\ loader = "adopt"
    /\ settings' = [k \in Key |-> Adopted(k)]
    /\ loader' = "done"
    /\ apart' = (sole # Loader \/ \E k \in Key : loading[k] = Bad)
    /\ sole' = IF sole = Loader THEN Nobody ELSE sole
    /\ UNCHANGED <<stored, hash, loading, post, snap, cleanup, restarts>>

WriteDefaults ==
    /\ loader = "defaults"
    /\ stored' = TRUE /\ hash' = settings
    /\ loader' = "done"
    /\ apart' = (sole # Loader)
    /\ sole' = IF sole = Loader THEN Nobody ELSE sole
    /\ UNCHANGED <<settings, loading, post, snap, cleanup, restarts>>

\* Redis cannot be reached: the defaults stay.
LoadFails ==
    /\ "redis" \in Upsets
    /\ loader \in {"read", "defaults"}
    /\ loader' = "done"
    /\ apart' = TRUE
    /\ sole' = IF sole = Loader THEN Nobody ELSE sole
    /\ UNCHANGED <<settings, stored, hash, loading, post, snap, cleanup, restarts>>

-----------------------------------------------------------------------------
(* settings_post                                                           *)

SetState(p) ==
    /\ post[p] = "new"
    /\ settings' = [settings EXCEPT ![PostKey[p]] = PostValue[p]]
    /\ post' = [post EXCEPT ![p] = "set"]
    /\ sole' = IF Busy = {} THEN p ELSE Nobody
    /\ UNCHANGED <<stored, hash, loader, loading, snap, cleanup, restarts, apart>>

\* The mapping for HSET.  Mutant: only what the request changed.
MappingOfRequest(p) == [hash EXCEPT ![PostKey[p]] = PostValue[p]]
Mapping(p) == settings

TakeMapping(p) ==
    /\ post[p] = "set"
    /\ snap' = [snap EXCEPT ![p] = Mapping(p)]
    /\ post' = [post EXCEPT ![p] = "store"]
    /\ UNCHANGED <<settings, stored, hash, loader, loading, cleanup, restarts, sole, apart>>

Store(p) ==
    /\ post[p] = "store"
    /\ stored' = TRUE /\ hash' = snap[p]
    /\ post' = [post EXCEPT ![p] = "done"]
    /\ apart' = (sole # p)
    /\ sole' = IF sole = p THEN Nobody ELSE sole
    /\ UNCHANGED <<settings, loader, loading, snap, cleanup, restarts>>

\* The error is logged and the request answers ok.
StoreFails(p) ==
    /\ "redis" \in Upsets
    /\ post[p] = "store"
    /\ post' = [post EXCEPT ![p] = "done"]
    /\ apart' = TRUE
    /\ sole' = IF sole = p THEN Nobody ELSE sole
    /\ UNCHANGED <<settings, stored, hash, loader, loading, snap, cleanup, restarts>>

-----------------------------------------------------------------------------
(* _retention_worker, restarts and Redis                                   *)

\* It reads the days and deletes what is older; a bad value only raises.
\* What it should have used is known when nobody is changing the settings.
Cleanup ==
    /\ settings["days"] # Bad
    /\ cleanup' = [days |-> settings["days"],
                   wanted |-> IF Busy = {} /\ ~apart THEN hash["days"] ELSE settings["days"]]
    /\ UNCHANGED <<settings, stored, hash, loader, loading, post, snap, restarts, sole, apart>>

\* soc-api starts again; requests under way are lost.
RestartApi ==
    /\ restarts < MaxRestarts
    /\ restarts' = restarts + 1
    /\ settings' = Default
    /\ loader' = "read"
    /\ post' = [p \in Post |-> IF post[p] \in {"set", "store"} THEN "done" ELSE post[p]]
    /\ sole' = Loader /\ apart' = TRUE
    /\ UNCHANGED <<stored, hash, loading, snap, cleanup>>

\* allkeys-lru evicts the hash.
EvictSettings ==
    /\ "evict" \in Upsets
    /\ stored
    /\ stored' = FALSE
    /\ apart' = TRUE
    /\ sole' = IF sole = Loader THEN Nobody ELSE sole
    /\ UNCHANGED <<settings, hash, loader, loading, post, snap, cleanup, restarts>>

SettingsNext ==
    \/ LoadRead \/ Adopt \/ WriteDefaults \/ LoadFails
    \/ \E p \in Post : SetState(p) \/ TakeMapping(p) \/ Store(p) \/ StoreFails(p)
    \/ Cleanup \/ RestartApi \/ EvictSettings

-----------------------------------------------------------------------------
(* Properties                                                              *)

Value == Int \cup {Bad}

SettingsTypeOK ==
    /\ settings \in [Key -> Value] /\ hash \in [Key -> Value] /\ loading \in [Key -> Value]
    /\ stored \in BOOLEAN /\ apart \in BOOLEAN
    /\ loader \in {"read", "adopt", "defaults", "done"}
    /\ post \in [Post -> {"new", "set", "store", "done"}]
    /\ snap \in [Post -> [Key -> Value]]
    /\ cleanup \in [days : Int, wanted : Value]
    /\ restarts \in 0..MaxRestarts
    /\ sole \in Post \cup {Nobody, Loader}

\* The page and the pipeline see the same settings when no thread is changing
\* them: after a restart, and after every POST that met no other change, also one
\* that repairs what a failure, an overlap or an eviction left behind.  Events
\* are then deleted by the retention that Redis holds.
SettingsAgree ==
    /\ SettingsTypeOK
    /\ Busy = {} /\ ~apart => stored /\ hash = settings
    /\ cleanup.days = cleanup.wanted
=============================================================================
