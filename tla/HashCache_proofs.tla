--------------------------- MODULE HashCache_proofs ---------------------------
(***************************************************************************)
(* Proofs about HashCache, for any number of router tasks, ingest threads  *)
(* and digests, and any faults.                                            *)
(***************************************************************************)
EXTENDS HashCache, TLAPS

\* The verdicts that h may be reported with.
Allowed(h) == results[h] \cup (IF h \in deleted THEN {"UNKNOWN"} ELSE {})

\* An entry that is gone leaves nothing behind, and what is there is allowed.
EntryOK(h) ==
    /\ ~entry[h].present => entry[h] = Absent
    /\ entry[h].present => entry[h].verdict \in Allowed(h)

\* A hit carries what it read, a store what was analysed, and a lookup that
\* finds its key gone meets a deleted digest.
ClientOK(p) ==
    /\ at[p] \in {"refresh", "count", "rowHit"} => verdict[p] \in Allowed(digest[p])
    /\ at[p] \in {"hset", "expire", "row"} => verdict[p] \in results[digest[p]]
    /\ at[p] \in {"refresh", "count"} => entry[digest[p]].present \/ digest[p] \in deleted

OriginInv ==
    /\ \A h \in Hash : EntryOK(h)
    /\ \A p \in Client : ClientOK(p)
    /\ VerdictsFromAnalyses

IInv == TypeOK /\ OriginInv /\ EntriesExpire

-----------------------------------------------------------------------------
(* One lemma per group of actions                                          *)

LEMMA InitInvariant == Init => IInv
<1> SUFFICES ASSUME Init PROVE IInv
  OBVIOUS
<1>1. TypeOK
  BY DEF Init, TypeOK, Entry, Absent, Command
<1>2. OriginInv
  BY DEF Init, OriginInv, EntryOK, ClientOK, VerdictsFromAnalyses, Absent
<1>3. EntriesExpire
  BY DEF Init, EntriesExpire, Absent
<1> QED  BY <1>1, <1>2, <1>3 DEF IInv

\* The fields that SetEntry writes.
LEMMA TypePreserved ==
    ASSUME TypeOK, [Next]_vars
    PROVE  TypeOK'
<1> USE DEF Command, Step, history
<1>1. ASSUME NEW p \in Client, Lookup(p) \/ StoreResult(p) \/ Abort(p) PROVE at' \in [Client -> Command]
  BY <1>1 DEF TypeOK, Lookup, StoreResult, Begin, Hit, Miss, Refresh, Count, IngestResult, HSet, Expire,
     AfterExpire, StoreRow, Abort
<1>2. ASSUME NEW p \in Client, NEW e \in Entry, SetEntry(p, e) PROVE entry' \in [Hash -> Entry]
  BY <1>2 DEF TypeOK, SetEntry
<1>3. ASSUME NEW p \in Client
      PROVE  /\ entry[digest[p]] \in Entry /\ entry[digest[p]].verdict \in Verdict \cup {"UNKNOWN"}
             /\ [entry[digest[p]] EXCEPT !.ttl = entry[digest[p]].present] \in Entry
             /\ [entry[digest[p]] EXCEPT !.present = TRUE] \in Entry
             /\ HSetFields(p) \in Entry
  <2>1. digest[p] \in Hash /\ verdict[p] \in Verdict \cup {"UNKNOWN"} /\ entry[digest[p]] \in Entry
    BY <1>3 DEF TypeOK
  <2> QED  BY <2>1 DEF Entry, HSetFields
<1>4. ASSUME NEW p \in Client, Begin(p) \/ Hit(p) \/ Abort(p) PROVE TypeOK'
  <2>1. at' \in [Client -> Command]
    BY <1>1, <1>4 DEF Lookup
  <2>2. digest' \in [Client -> Hash]
    BY <1>4 DEF TypeOK, Begin, Hit, Abort
  <2>4. verdict' \in [Client -> Verdict \cup {"UNKNOWN"}]
    <3>1. verdict \in [Client -> Verdict \cup {"UNKNOWN"}]
      BY DEF TypeOK
    <3>2. UNCHANGED verdict \/ verdict' = [verdict EXCEPT ![p] = entry[digest[p]].verdict]
      BY <1>4 DEF Begin, Hit, Abort
    <3> QED  BY <1>3, <3>1, <3>2
  <2>3. aborted' \subseteq Hash
    BY <1>4 DEF TypeOK, Begin, Hit, Abort
  <2> QED  BY <1>4, <2>1, <2>2, <2>3, <2>4 DEF TypeOK, Begin, Hit, Abort
<1>5. ASSUME NEW p \in Client, Miss(p) PROVE TypeOK'
  <2>1. at' \in [Client -> Command]
    BY <1>1, <1>5 DEF Lookup
  <2>2. /\ verdict' \in [Client -> Verdict \cup {"UNKNOWN"}]
        /\ results' \in [Hash -> SUBSET Verdict]
    BY <1>5 DEF TypeOK, Miss
  <2> QED  BY <1>5, <2>1, <2>2 DEF TypeOK, Miss
<1>6. ASSUME NEW p \in Client, Refresh(p) \/ Expire(p) \/ HSet(p) PROVE TypeOK'
  <2>1. at' \in [Client -> Command]
    BY <1>1, <1>6 DEF Lookup, StoreResult
  <2>2. entry' \in [Hash -> Entry]
    BY <1>2, <1>3, <1>6 DEF Refresh, Expire, HSet
  <2> QED  BY <1>6, <2>1, <2>2 DEF TypeOK, Refresh, Expire, HSet
<1>7. ASSUME NEW p \in Client, Count(p) PROVE TypeOK'
  <2>1. at' \in [Client -> Command]
    BY <1>1, <1>7 DEF Lookup
  <2>2. entry' \in [Hash -> Entry]
    BY <1>2, <1>3, <1>7 DEF Count
  <2>3. served' \in [Hash -> SUBSET (Verdict \cup {"UNKNOWN"})]
    BY <1>7 DEF TypeOK, Count
  <2> QED  BY <1>7, <2>1, <2>2, <2>3 DEF TypeOK, Count
<1>8. ASSUME NEW p \in Client, IngestResult(p) PROVE TypeOK'
  <2>1. at' \in [Client -> Command]
    BY <1>1, <1>8 DEF StoreResult
  <2>2. /\ digest' \in [Client -> Hash] /\ verdict' \in [Client -> Verdict \cup {"UNKNOWN"}]
        /\ results' \in [Hash -> SUBSET Verdict]
    BY <1>8 DEF TypeOK, IngestResult
  <2> QED  BY <1>8, <2>1, <2>2 DEF TypeOK, IngestResult
<1>9. ASSUME NEW p \in Client, StoreRow(p) PROVE TypeOK'
  <2>1. at' \in [Client -> Command]
    BY <1>1, <1>9 DEF StoreResult
  <2>2. row' \in [Hash -> Verdict \cup {"UNKNOWN", "absent"}]
    BY <1>9 DEF TypeOK, StoreRow
  <2> QED  BY <1>9, <2>1, <2>2 DEF TypeOK, StoreRow
<1>10. ASSUME NEW h \in Hash, Delete(h) PROVE TypeOK'
  BY <1>10 DEF TypeOK, Delete, Absent, Entry
<1>11. CASE UNCHANGED vars
  BY <1>11 DEF TypeOK, vars
<1> QED
  BY <1>4, <1>5, <1>6, <1>7, <1>8, <1>9, <1>10, <1>11 DEF Next, Lookup, StoreResult

\* Verdicts that a digest may have stay allowed.
LEMMA AllowedGrows ==
    ASSUME TypeOK, [Next]_vars, NEW h \in Hash
    PROVE  /\ results[h] \subseteq results'[h] /\ Allowed(h) \subseteq Allowed(h)'
           /\ deleted \subseteq deleted'
<1>1. ASSUME NEW p \in Client, Miss(p) \/ IngestResult(p)
      PROVE  results[h] \subseteq results'[h] /\ deleted' = deleted
  BY <1>1 DEF Miss, IngestResult, TypeOK
<1>2. results[h] \subseteq results'[h] /\ deleted \subseteq deleted'
  BY <1>1 DEF Next, Lookup, StoreResult, Begin, Hit, Refresh, Count, HSet, Expire, StoreRow,
     Abort, Delete, vars, history
<1> QED  BY <1>2 DEF Allowed

\* Only HSET writes a verdict, that of its client; an entry goes only with its digest
\* deleted, and comes back without a verdict only then.
LEMMA EntryPreserved ==
    ASSUME TypeOK, OriginInv, [Next]_vars, NEW h \in Hash
    PROVE  EntryOK(h)' /\ (entry[h].present => entry'[h].present \/ h \in deleted')
<1> USE DEF TypeOK, Entry, Step, history, EntryOK
<1>1. /\ entry[h] \in Entry /\ EntryOK(h) /\ Allowed(h) \subseteq Allowed(h)'
      /\ results[h] \subseteq results'[h] /\ deleted \subseteq deleted'
  BY AllowedGrows DEF OriginInv
<1>2. CASE entry' = entry
  BY <1>1, <1>2
<1>4. ASSUME NEW p \in Client, digest[p] = h, Refresh(p) \/ Count(p) \/ HSet(p) \/ Expire(p)
      PROVE  EntryOK(h)' /\ (entry[h].present => entry'[h].present \/ h \in deleted')
  <2>1. ClientOK(p)
    BY DEF OriginInv
  <2>2. CASE Refresh(p) \/ Expire(p)
    <3>1. entry'[h] = [entry[h] EXCEPT !.ttl = entry[h].present]
      BY <1>4, <2>2 DEF Refresh, Expire, SetEntry
    <3>2. entry'[h].present = entry[h].present /\ entry'[h].verdict = entry[h].verdict
      BY <1>1, <3>1
    <3>3. ASSUME ~entry[h].present PROVE entry'[h] = Absent
      <4>1. entry[h] = Absent /\ Absent.present = FALSE
        BY <1>1, <3>3 DEF Absent
      <4>2. entry'[h] = [Absent EXCEPT !.ttl = FALSE]
        BY <3>1, <4>1
      <4> QED  BY <4>2 DEF Absent
    <3> QED  BY <1>1, <3>2, <3>3
  <2>3. CASE Count(p)
    BY <1>1, <1>4, <2>1, <2>3 DEF Count, SetEntry, Absent, ClientOK, Allowed
  <2>4. CASE HSet(p)
    BY <1>1, <1>4, <2>1, <2>4 DEF HSet, HSetFields, SetEntry, ClientOK, Allowed
  <2> QED  BY <1>4, <2>2, <2>3, <2>4
<1>5. ASSUME NEW p \in Client, digest[p] # h, Refresh(p) \/ Count(p) \/ HSet(p) \/ Expire(p)
      PROVE  entry'[h] = entry[h]
  BY <1>5 DEF Refresh, Count, HSet, Expire, SetEntry
<1>6. ASSUME NEW g \in Hash, Delete(g)
      PROVE  EntryOK(h)' /\ (entry[h].present => entry'[h].present \/ h \in deleted')
  BY <1>1, <1>6 DEF Delete, Absent
<1>7. CASE UNCHANGED entry
  BY <1>1, <1>7
<1> QED
  BY <1>1, <1>4, <1>5, <1>6, <1>7
  DEF Next, Lookup, StoreResult, Begin, Hit, Miss, IngestResult, StoreRow, Abort, vars

\* A client takes a verdict from an entry that is allowed, or from an analysis.
LEMMA ClientPreserved ==
    ASSUME TypeOK, OriginInv, [Next]_vars, NEW p \in Client
    PROVE  ClientOK(p)'
<1> USE DEF TypeOK, Entry, Step, history, ClientOK
<1>1. ClientOK(p) /\ EntryOK(digest[p])
  BY DEF OriginInv
<1>2. \A h \in Hash : /\ Allowed(h) \subseteq Allowed(h)' /\ results[h] \subseteq results'[h]
                      /\ deleted \subseteq deleted'
                      /\ entry[h].present => entry'[h].present \/ h \in deleted'
  BY AllowedGrows, EntryPreserved
<1>3. CASE UNCHANGED <<at[p], digest[p], verdict[p]>>
  BY <1>1, <1>2, <1>3
<1>4. CASE Begin(p) \/ Abort(p)
  BY <1>4 DEF Begin, Abort
<1>5. CASE Hit(p)
  <2>1. at'[p] = "refresh" /\ digest'[p] = digest[p] /\ verdict'[p] = entry[digest[p]].verdict
        /\ entry[digest[p]].present
    BY <1>5 DEF Hit
  <2>2. verdict'[p] \in Allowed(digest[p])
    BY <1>1, <2>1 DEF EntryOK
  <2> QED  BY <1>2, <2>1, <2>2
<1>6. CASE Miss(p)
  BY <1>6 DEF Miss
<1>7. CASE Refresh(p) \/ Count(p) \/ HSet(p) \/ Expire(p) \/ StoreRow(p)
  <2>1. digest'[p] = digest[p] /\ verdict'[p] = verdict[p]
    BY <1>7 DEF Refresh, Count, HSet, Expire, StoreRow
  <2>2. \/ at[p] = "refresh" /\ at'[p] = "count"
        \/ at[p] = "count" /\ at'[p] = "rowHit"
        \/ at[p] \in {"hset", "expire", "row"} /\ at'[p] \in {"hset", "expire", "row", "idle"}
        \/ at'[p] = "idle"
    BY <1>7 DEF Refresh, Count, HSet, Expire, AfterExpire, StoreRow
  <2> QED  BY <1>1, <1>2, <2>1, <2>2
<1>8. CASE IngestResult(p)
  BY <1>8 DEF IngestResult
<1>9. ASSUME NEW q \in Client \ {p}, Lookup(q) \/ StoreResult(q) \/ Abort(q)
      PROVE  UNCHANGED <<at[p], digest[p], verdict[p]>>
  BY <1>9 DEF Lookup, StoreResult, Begin, Hit, Miss, Refresh, Count, IngestResult, HSet,
     Expire, AfterExpire, StoreRow, Abort
<1>10. CASE (\E h \in Hash : Delete(h)) \/ UNCHANGED vars
  BY <1>3, <1>10 DEF Delete, vars
<1> QED
  BY <1>3, <1>4, <1>5, <1>6, <1>7, <1>8, <1>9, <1>10 DEF Next, Lookup, StoreResult

\* A verdict is served, or written to Postgres, by a client that may carry it.
LEMMA RecordsPreserved ==
    ASSUME TypeOK, OriginInv, [Next]_vars
    PROVE  VerdictsFromAnalyses'
<1> SUFFICES ASSUME NEW h \in Hash
             PROVE  served'[h] \cup {row'[h]} \subseteq Allowed(h)' \cup {"absent"}
  BY DEF VerdictsFromAnalyses, Allowed
<1>1. /\ Allowed(h) \subseteq Allowed(h)'
      /\ served[h] \cup {row[h]} \subseteq Allowed(h) \cup {"absent"}
  BY AllowedGrows DEF OriginInv, VerdictsFromAnalyses, Allowed
<1>2. CASE UNCHANGED <<served, row>>
  BY <1>1, <1>2
<1>3. ASSUME NEW p \in Client, Count(p) \/ StoreRow(p)
      PROVE  served'[h] \cup {row'[h]} \subseteq Allowed(h) \cup {"absent"}
  <2>1. verdict[p] \in Allowed(digest[p])
    BY <1>3 DEF OriginInv, ClientOK, Count, StoreRow, Step, Allowed
  <2> QED  BY <1>1, <1>3, <2>1 DEF Count, StoreRow, TypeOK
<1> QED
  BY <1>1, <1>2, <1>3 DEF Next, Lookup, StoreResult, Begin, Hit, Miss, Refresh, IngestResult,
     HSet, Expire, Abort, Delete, vars

LEMMA OriginPreserved ==
    ASSUME TypeOK, OriginInv, [Next]_vars
    PROVE  OriginInv'
  BY EntryPreserved, ClientPreserved, RecordsPreserved DEF OriginInv

\* An entry without a time to live is new, and its client is about to give it
\* one; only a deletion or a client that stops comes in between.
LEMMA ExpiryPreserved ==
    ASSUME TypeOK, OriginInv, EntriesExpire, [Next]_vars
    PROVE  EntriesExpire'
<1> USE DEF TypeOK, Entry, Step, history
<1> SUFFICES ASSUME NEW h \in Hash \ (deleted' \cup aborted'), entry'[h].present, ~entry'[h].ttl
             PROVE  \E p \in Client : at'[p] = "expire" /\ digest'[p] = h
  BY DEF EntriesExpire
<1>1. deleted \subseteq deleted' /\ aborted \subseteq aborted'
  BY DEF Next, Lookup, StoreResult, Begin, Hit, Miss, Refresh, Count, IngestResult, HSet,
     Expire, StoreRow, Abort, Delete, vars
<1>2. CASE \E p \in Client : HSet(p) /\ digest[p] = h
  BY <1>2 DEF HSet
<1>3. CASE ~\E p \in Client : HSet(p) /\ digest[p] = h
  <2>1. entry[h].present /\ ~entry[h].ttl
    <3>1. ASSUME NEW p \in Client, digest[p] = h, Refresh(p) \/ Expire(p) PROVE FALSE
      BY <3>1 DEF Refresh, Expire, SetEntry
    <3>2. ASSUME NEW p \in Client, digest[p] = h, Count(p)
          PROVE  entry[h].present /\ ~entry[h].ttl
      BY <1>1, <3>2 DEF Count, SetEntry, OriginInv, ClientOK
    <3>3. ASSUME NEW p \in Client, digest[p] # h,
                 Refresh(p) \/ Count(p) \/ HSet(p) \/ Expire(p)
          PROVE  entry'[h] = entry[h]
      BY <3>3 DEF Refresh, Count, HSet, Expire, SetEntry
    <3>4. ASSUME NEW g \in Hash, Delete(g) PROVE entry'[h] = entry[h]
      BY <3>4 DEF Delete, Absent
    <3>5. entry' = entry => entry'[h] = entry[h]
      OBVIOUS
    <3> QED
      BY <1>3, <3>1, <3>2, <3>3, <3>4, <3>5
      DEF Next, Lookup, StoreResult, Begin, Hit, Miss, IngestResult, StoreRow, Abort, vars
  <2>2. PICK p \in Client : at[p] = "expire" /\ digest[p] = h
    BY <1>1, <2>1 DEF EntriesExpire
  <2>3. at'[p] = "expire" /\ digest'[p] = h
    <3>1. ~Expire(p)
      BY <2>2 DEF Expire, SetEntry
    <3>2. ~Abort(p)
      BY <2>2 DEF Abort
    <3>3. ASSUME NEW q \in Client \ {p}, Lookup(q) \/ StoreResult(q) \/ Abort(q)
          PROVE  UNCHANGED <<at[p], digest[p]>>
      BY <3>3 DEF Lookup, StoreResult, Begin, Hit, Miss, Refresh, Count, IngestResult, HSet,
         Expire, AfterExpire, StoreRow, Abort
    <3>4. ~Lookup(p) /\ ~(IngestResult(p) \/ HSet(p) \/ StoreRow(p))
      BY <2>2 DEF Lookup, Begin, Hit, Miss, Refresh, Count, IngestResult, HSet, StoreRow
    <3>5. CASE (\E g \in Hash : Delete(g)) \/ UNCHANGED vars
      BY <2>2, <3>5 DEF Delete, vars
    <3> QED  BY <2>2, <3>1, <3>2, <3>3, <3>4, <3>5 DEF Next, StoreResult
  <2> QED  BY <2>3
<1> QED  BY <1>2, <1>3

-----------------------------------------------------------------------------
(* Theorems                                                                *)

\* The inductive invariant of the two stores and their clients.
THEOREM CacheInvariant == Spec => []IInv
<1>1. IInv /\ [Next]_vars => IInv'
  BY TypePreserved, OriginPreserved, ExpiryPreserved DEF IInv
<1> QED  BY <1>1, InitInvariant, PTL DEF Spec

\* The entries of Redis, the rows of Postgres and the clients' locals keep
\* their types.
THEOREM TypeCorrect == Spec => []TypeOK
<1>1. IInv => TypeOK
  BY DEF IInv
<1> QED  BY <1>1, CacheInvariant, PTL

\* For any number of overlapping lookups and stores and any deletions by
\* Redis: what lookup serves and what store_hash_cache records is the result of an
\* analysis of that digest, or UNKNOWN for a digest that was deleted.
THEOREM VerdictsCorrect == Spec => []VerdictsFromAnalyses
<1>1. IInv => VerdictsFromAnalyses
  BY DEF IInv, OriginInv
<1> QED  BY <1>1, CacheInvariant, PTL

\* In the same generality: an entry of a digest that was not deleted and whose
\* writers did not stop has a time to live, or a client is about to set it.
THEOREM ExpiryCorrect == Spec => []EntriesExpire
<1>1. IInv => EntriesExpire
  BY DEF IInv
<1> QED  BY <1>1, CacheInvariant, PTL

\* In the same generality: no step but an HSET changes the verdict of an
\* entry.
THEOREM StoresCorrect == Spec => OnlyStoresSetVerdicts
<1>1. ASSUME TypeOK, Next, NEW h \in Hash, entry'[h].present,
             entry'[h].verdict # entry[h].verdict
      PROVE  \E p \in Client : at[p] = "hset" /\ digest[p] = h
  <2> USE DEF TypeOK, Entry, Step, SetEntry
  <2>1. ASSUME NEW p \in Client, Refresh(p) \/ Count(p) \/ Expire(p) PROVE FALSE
    BY <1>1, <2>1 DEF Refresh, Count, Expire
  <2>2. ASSUME NEW p \in Client, HSet(p) PROVE at[p] = "hset" /\ digest[p] = h
    BY <1>1, <2>2 DEF HSet
  <2>3. ASSUME NEW g \in Hash, Delete(g) PROVE FALSE
    BY <1>1, <2>3 DEF Delete, Absent
  <2>4. entry' # entry
    BY <1>1
  <2> QED
    BY <1>1, <2>1, <2>2, <2>3, <2>4
    DEF Next, Lookup, StoreResult, Begin, Hit, Miss, IngestResult, StoreRow, Abort
<1>2. TypeOK /\ [Next]_vars =>
        [\A h \in Hash : entry'[h].present /\ entry'[h].verdict # entry[h].verdict =>
            \E p \in Client : at[p] = "hset" /\ digest[p] = h]_vars
  BY <1>1
<1> QED  BY <1>2, TypeCorrect, PTL DEF Spec, OnlyStoresSetVerdicts

\* cache.py:4 holds as far as Redis deletes nothing: whatever lookups and stores
\* overlap, fail or are cancelled, each hit is served with a verdict an analysis
\* of that digest gave.  What the run of the same property finds needs a key
\* that is deleted between HGETALL and HINCRBY.
THEOREM HitsCorrectWithoutDeletion ==
    ASSUME "delete" \notin Faults, "absent" \notin Verdict
    PROVE  Spec => []HitReturnsCachedVerdict
<1>1. Init => deleted = {}
  BY DEF Init
<1>2. deleted = {} /\ [Next]_vars => (deleted = {})'
  <2>1. ASSUME NEW p \in Client, Lookup(p) \/ StoreResult(p) \/ Abort(p) PROVE deleted' = deleted
    BY <2>1 DEF Lookup, StoreResult, Begin, Hit, Miss, Refresh, Count, IngestResult, HSet,
                Expire, StoreRow, Abort, history
  <2>2. ASSUME NEW h \in Hash PROVE ~Delete(h)
    BY DEF Delete
  <2> QED  BY <2>1, <2>2 DEF Next, vars, history
<1>3. TypeOK /\ VerdictsFromAnalyses /\ deleted = {} => HitReturnsCachedVerdict
  BY DEF TypeOK, VerdictsFromAnalyses, HitReturnsCachedVerdict
<1> QED  BY <1>1, <1>2, <1>3, TypeCorrect, VerdictsCorrect, PTL DEF Spec
=============================================================================
