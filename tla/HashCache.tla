------------------------------ MODULE HashCache ------------------------------
(***************************************************************************)
(* The SHA-256 verdict cache: a Redis hash per digest (routing-system/     *)
(* cache.py, soc-api/server.py) with its copy in Postgres (hash_cache).    *)
(* Router tasks look a digest up and store what they analysed; ingest      *)
(* threads of the SOC store only, in the opposite order.  Every lookup and *)
(* every store is several Redis commands; Redis executes each one          *)
(* atomically, other clients and Redis's own deletions come in between.    *)
(***************************************************************************)
EXTENDS FiniteSets

CONSTANTS
    Router,     \* tasks of the routing system inside _process_stream
    Ingest,     \* ingest threads of soc-api
    Hash,       \* digests
    Verdict,    \* labels an analysis gives
    Faults      \* subset of {"delete", "abort"}

Client == Router \cup Ingest

ASSUME HashCacheAssumption ==
    /\ Router \cap Ingest = {}
    /\ "UNKNOWN" \notin Verdict
    /\ Faults \subseteq {"delete", "abort"}

VARIABLES
    entry,      \* the Redis hash stored under each digest
    row,        \* the verdict of the Postgres row, "absent" without a row
    at,         \* the command each client sends next
    digest,     \* the digest each client works on
    verdict,    \* the verdict each client carries
    results,    \* history: verdicts analyses gave for a digest
    served,     \* history: verdicts served as cache hits
    deleted,    \* history: digests Redis has deleted
    aborted     \* history: digests whose writer stopped half way

vars == <<entry, row, at, digest, verdict, results, served, deleted, aborted>>
history == <<results, deleted, aborted>>

\* A missing field "verdict" is read as "UNKNOWN" (data.get's default).
Absent == [present |-> FALSE, verdict |-> "UNKNOWN", ttl |-> FALSE]
Entry == [present : BOOLEAN, verdict : Verdict \cup {"UNKNOWN"}, ttl : BOOLEAN]

Command == {"idle", "get", "refresh", "count", "rowHit", "hset", "expire", "row"}

Init ==
    /\ entry = [h \in Hash |-> Absent]
    /\ row = [h \in Hash |-> "absent"]
    /\ at = [p \in Client |-> "idle"]
    /\ digest \in [Client -> Hash]
    /\ verdict = [p \in Client |-> "UNKNOWN"]
    /\ results = [h \in Hash |-> {}]
    /\ served = [h \in Hash |-> {}]
    /\ deleted = {}
    /\ aborted = {}

\* p moves from command c to command d.
Step(p, c, d) == at[p] = c /\ at' = [at EXCEPT ![p] = d]

\* Redis sets an entry of p's digest.
SetEntry(p, e) == entry' = [entry EXCEPT ![digest[p]] = e]

-----------------------------------------------------------------------------
(* HashCache.lookup                                                        *)

Begin(p) ==
    /\ p \in Router
    /\ Step(p, "idle", "get")
    /\ \E h \in Hash : digest' = [digest EXCEPT ![p] = h]
    /\ UNCHANGED <<entry, row, verdict, served, history>>

\* HGETALL returns fields: a hit, whose verdict is fixed here.
Hit(p) ==
    /\ entry[digest[p]].present
    /\ Step(p, "get", "refresh")
    /\ verdict' = [verdict EXCEPT ![p] = entry[digest[p]].verdict]
    /\ UNCHANGED <<entry, row, digest, served, history>>

\* HGETALL returns nothing: the payload is analysed, with a label or ERROR,
\* which is not stored.  Mutant: it is.
MissStoresError(p) ==
    /\ ~entry[digest[p]].present
    /\ Step(p, "get", "hset")
    /\ verdict' = [verdict EXCEPT ![p] = "ERROR"]
    /\ UNCHANGED <<entry, row, digest, served, history>>

Miss(p) ==
    /\ ~entry[digest[p]].present
    /\ \/ /\ \E v \in Verdict :
             /\ verdict' = [verdict EXCEPT ![p] = v]
             /\ results' = [results EXCEPT ![digest[p]] = @ \cup {v}]
          /\ Step(p, "get", "hset")
       \/ Step(p, "get", "idle") /\ UNCHANGED <<verdict, results>>
    /\ UNCHANGED <<entry, row, digest, served, deleted, aborted>>

\* EXPIRE on a hit: no effect on a key that is gone by now.
Refresh(p) ==
    /\ Step(p, "refresh", "count")
    /\ SetEntry(p, [entry[digest[p]] EXCEPT !.ttl = entry[digest[p]].present])
    /\ UNCHANGED <<row, digest, verdict, served, history>>

\* HINCRBY hit_count creates the hash when the key is gone, with that field
\* only and without a time to live.  Mutant: the hash is rewritten from the
\* fields read before.
CountRewrites(p) ==
    /\ Step(p, "count", "rowHit")
    /\ SetEntry(p, [entry[digest[p]] EXCEPT !.present = TRUE, !.verdict = verdict[p]])
    /\ served' = [served EXCEPT ![digest[p]] = @ \cup {verdict[p]}]
    /\ UNCHANGED <<row, digest, verdict, history>>

Count(p) ==
    /\ Step(p, "count", "rowHit")
    /\ SetEntry(p, [entry[digest[p]] EXCEPT !.present = TRUE])
    /\ served' = [served EXCEPT ![digest[p]] = @ \cup {verdict[p]}]
    /\ UNCHANGED <<row, digest, verdict, history>>

-----------------------------------------------------------------------------
(* HashCache.store, store_hash_cache and their SOC counterparts            *)

\* HSET writes verdict, score and hit_count in one command and keeps a time
\* to live that is there.  Mutants: the counter is initialised by a command
\* of its own before the verdict; only the verdict of a new key is written.
HSetCounterOnly(p) == [entry[digest[p]] EXCEPT !.present = TRUE]
HSetFields(p) ==
    [entry[digest[p]] EXCEPT !.present = TRUE, !.verdict = verdict[p]]

HSet(p) ==
    /\ Step(p, "hset", "expire")
    /\ SetEntry(p, HSetFields(p))
    /\ UNCHANGED <<row, digest, verdict, served, history>>

\* EXPIRE after a store; the router goes on to Postgres, the SOC is done.
\* Mutant: skipped.
AfterExpire(p) == IF p \in Router THEN "row" ELSE "idle"
NoExpire(p) ==
    /\ Step(p, "expire", AfterExpire(p))
    /\ UNCHANGED <<entry, row, digest, verdict, served, history>>

Expire(p) ==
    /\ Step(p, "expire", AfterExpire(p))
    /\ SetEntry(p, [entry[digest[p]] EXCEPT !.ttl = entry[digest[p]].present])
    /\ UNCHANGED <<row, digest, verdict, served, history>>

\* The upsert of hash_cache, after a hit or a store; errors are swallowed.
\* For the SOC it precedes the Redis commands.
StoreRow(p) ==
    /\ \/ p \in Router /\ (Step(p, "rowHit", "idle") \/ Step(p, "row", "idle"))
       \/ p \in Ingest /\ Step(p, "row", "hset")
    /\ \/ row' = [row EXCEPT ![digest[p]] = verdict[p]]
       \/ "abort" \in Faults /\ UNCHANGED row
    /\ UNCHANGED <<entry, digest, verdict, served, history>>

\* An ingest job has analysed an uploaded image.
IngestResult(p) ==
    /\ p \in Ingest
    /\ Step(p, "idle", "row")
    /\ \E h \in Hash, v \in Verdict :
        /\ digest' = [digest EXCEPT ![p] = h]
        /\ verdict' = [verdict EXCEPT ![p] = v]
        /\ results' = [results EXCEPT ![h] = @ \cup {v}]
    /\ UNCHANGED <<entry, row, served, deleted, aborted>>

-----------------------------------------------------------------------------

\* A Redis error, a cancelled handler or a restart ends the sequence here.
Abort(p) ==
    /\ "abort" \in Faults
    /\ at[p] # "idle"
    /\ at' = [at EXCEPT ![p] = "idle"]
    /\ aborted' = IF at[p] = "expire" THEN aborted \cup {digest[p]} ELSE aborted
    /\ UNCHANGED <<entry, row, digest, verdict, results, served, deleted>>

\* Redis deletes a key: its time to live is over, or allkeys-lru picks it.
Delete(h) ==
    /\ "delete" \in Faults
    /\ entry[h].present
    /\ entry' = [entry EXCEPT ![h] = Absent]
    /\ deleted' = deleted \cup {h}
    /\ UNCHANGED <<row, at, digest, verdict, results, served, aborted>>

Lookup(p) == Begin(p) \/ Hit(p) \/ Miss(p) \/ Refresh(p) \/ Count(p)
StoreResult(p) == IngestResult(p) \/ HSet(p) \/ Expire(p) \/ StoreRow(p)

Next ==
    \/ \E p \in Client : Lookup(p) \/ StoreResult(p) \/ Abort(p)
    \/ \E h \in Hash : Delete(h)

Spec == Init /\ [][Next]_vars

-----------------------------------------------------------------------------
(* Properties                                                              *)

\* Type correctness of the two stores and of the clients' locals.
TypeOK ==
    /\ entry \in [Hash -> Entry]
    /\ row \in [Hash -> Verdict \cup {"UNKNOWN", "absent"}]
    /\ at \in [Client -> Command]
    /\ digest \in [Client -> Hash]
    /\ verdict \in [Client -> Verdict \cup {"UNKNOWN"}]
    /\ results \in [Hash -> SUBSET Verdict]
    /\ served \in [Hash -> SUBSET (Verdict \cup {"UNKNOWN"})]
    /\ deleted \subseteq Hash
    /\ aborted \subseteq Hash

\* A lookup that overlaps a store or a deletion never brings back or blanks
\* a verdict: an entry takes a new verdict only from a client at its HSET.
OnlyStoresSetVerdicts ==
    [][\A h \in Hash :
        entry'[h].present /\ entry'[h].verdict # entry[h].verdict =>
            \E p \in Client : at[p] = "hset" /\ digest[p] = h]_vars

\* Every verdict that is served or recorded for a digest came from an
\* analysis of that digest, except where Redis deleted its key: UNKNOWN
\* arises in no other way, however stores and lookups overlap.
VerdictsFromAnalyses ==
    \A h \in Hash :
        served[h] \cup {row[h]} \subseteq
            results[h] \cup {"absent"} \cup (IF h \in deleted THEN {"UNKNOWN"} ELSE {})

\* An entry with a verdict and no time to live is on the way to getting one,
\* unless its writer stopped between HSET and EXPIRE or the entry was deleted
\* under it: the cache does not fill up with immortal entries.
EntriesExpire ==
    \A h \in Hash \ (deleted \cup aborted) :
        entry[h].present /\ ~entry[h].ttl =>
            \E p \in Client : at[p] = "expire" /\ digest[p] = h

\* cache.py:4: "On a CACHE HIT -> returns the cached verdict": no hit is
\* served with a verdict that no analysis of the digest gave.
HitReturnsCachedVerdict == \A h \in Hash : served[h] \subseteq results[h]
=============================================================================
