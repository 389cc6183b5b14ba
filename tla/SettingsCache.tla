--------------------------- MODULE SettingsCache ---------------------------
(***************************************************************************)
(* The settings of one tenant and the cache in front of them               *)
(* (lib/settings/store.ts): requests of one process that share the cache   *)
(* and the query that fills it.  Every await is a point where the others   *)
(* run.                                                                    *)
(***************************************************************************)
EXTENDS Naturals, FiniteSets

CONSTANTS
  Keys,
  Values,
  Default,  \* the registry's value, which a key without a row has
  Clients,  \* requests
  NoRows    \* no cache, or a query that has not read yet

ASSUME SettingsAssumption ==
  /\ Default \in Values
  /\ NoRows \notin [Keys -> Values]

VARIABLES
  stored,   \* system_settings: the effective value of every key
  cache,    \* caches.get(tenant)
  query,    \* inFlight.get(tenant): [at, rows]
  client,   \* [at, wants, key, value]
  old       \* history: of the query and of the cache, that a write has
            \* committed since the rows were read

settingsVars == <<stored, cache, query, client, old>>

Rows == [Keys -> Values]
Kinds == {"read", "save", "reset", "refresh"}
ClientSteps == {"new", "waiting", "commit", "invalidate", "served", "saved", "unchanged", "failed"}

SettingsTypeOK ==
  /\ stored \in Rows
  /\ cache \in Rows \cup {NoRows}
  /\ query \in [at : {"none", "sent", "read"}, rows : Rows \cup {NoRows}]
  /\ client \in [Clients -> [at : ClientSteps, wants : Kinds, key : Keys, value : Values]]
  /\ old \in [query : BOOLEAN, cache : BOOLEAN]

NoQuery == [at |-> "none", rows |-> NoRows]

SettingsInit ==
  /\ stored \in Rows
  /\ cache = NoRows
  /\ query = NoQuery
  /\ client \in [Clients -> [at : {"new"}, wants : Kinds, key : Keys, value : Values]]
  /\ old = [query |-> FALSE, cache |-> FALSE]

\* Mutant of Unchanged: what the registry says anyway is not written down.
UnchangedOrDefault(rows, r) == r.value \in {rows[r.key], Default}

\* setSettings skips a write that would not change the effective value.
Unchanged(rows, r) == r.value = rows[r.key]

\* A request goes on with the rows that loadCache returned.
Resumed(r, rows) ==
  [r EXCEPT !.at = CASE r.wants # "save" -> "served"
                     [] r.wants = "save" /\ Unchanged(rows, r) -> "unchanged"
                     [] OTHER -> "commit"]

\* loadCache: the cache, or the query on its way, or a query of one's own.
Load(c) ==
  \/ /\ cache # NoRows /\ client[c].wants # "refresh"
     /\ client' = [client EXCEPT ![c] = Resumed(@, cache)]
     /\ UNCHANGED <<stored, cache, query, old>>
  \/ /\ cache = NoRows \/ client[c].wants = "refresh"
     /\ cache' = NoRows
     /\ client' = [client EXCEPT ![c].at = "waiting"]
     /\ IF query.at # "none" THEN UNCHANGED <<query, old>>
        ELSE /\ query' = [at |-> "sent", rows |-> NoRows]
             /\ old' = [old EXCEPT !.query = FALSE]
     /\ UNCHANGED stored

\* getSetting(s), setSettings and refreshSettings, which drops the cache first.
BeginRequest(c) ==
  /\ client[c].at = "new" /\ client[c].wants # "reset"
  /\ Load(c)

\* resetSetting deletes the row without a look at the cache.
BeginReset(c) ==
  /\ client[c].at = "new" /\ client[c].wants = "reset"
  /\ client' = [client EXCEPT ![c].at = "commit", ![c].value = Default]
  /\ UNCHANGED <<stored, cache, query, old>>

\* readAllRows: the database reads ...
QueryReads ==
  /\ query.at = "sent"
  /\ query' = [at |-> "read", rows |-> stored]
  /\ UNCHANGED <<stored, cache, client, old>>

\* ... and the answer arrives: the cache is filled and all who wait go on.
QueryAnswers ==
  /\ query.at = "read"
  /\ cache' = query.rows
  /\ client' = [c \in Clients |-> IF client[c].at = "waiting"
                                  THEN Resumed(client[c], query.rows) ELSE client[c]]
  /\ query' = NoQuery
  /\ old' = [query |-> FALSE, cache |-> old.query]
  /\ UNCHANGED stored

QueryFails ==
  /\ query.at # "none"
  /\ client' = [c \in Clients |-> IF client[c].at = "waiting"
                                  THEN [client[c] EXCEPT !.at = "failed"] ELSE client[c]]
  /\ query' = NoQuery
  /\ old' = [old EXCEPT !.query = FALSE]
  /\ UNCHANGED <<stored, cache>>

\* The transaction commits; the request does not know yet.
Commit(c) ==
  /\ client[c].at = "commit"
  /\ stored' = [stored EXCEPT ![client[c].key] = client[c].value]
  /\ client' = [client EXCEPT ![c].at = "invalidate"]
  /\ old' = [query |-> old.query \/ query.at = "read", cache |-> old.cache]
  /\ UNCHANGED <<cache, query>>

CommitFails(c) ==
  /\ client[c].at = "commit"
  /\ client' = [client EXCEPT ![c].at = "failed"]
  /\ UNCHANGED <<stored, cache, query, old>>

\* Mutant of Dropped: the cache stays as it was.
Kept == cache

Dropped == NoRows

\* invalidateSettingsCache: the cache goes, a query on its way stays.
Invalidate(c) ==
  /\ client[c].at = "invalidate"
  /\ cache' = Dropped
  /\ client' = [client EXCEPT ![c].at = "saved"]
  /\ UNCHANGED <<stored, query, old>>

SettingsNext ==
  \/ QueryReads \/ QueryAnswers \/ QueryFails
  \/ \E c \in Clients : \/ BeginRequest(c) \/ BeginReset(c)
                        \/ Commit(c) \/ CommitFails(c) \/ Invalidate(c)

SettingsSpec == SettingsInit /\ [][SettingsNext]_settingsVars

\* Rows that may differ from the table: a writer has committed and is about to
\* drop the cache, or the query that brought them was overtaken by a commit.
Excused == old.cache \/ \E c \in Clients : client[c].at = "invalidate"

\* What the cache serves is what the table holds.  The one lasting exception is
\* a query that read before a commit and answered after it: invalidation does
\* not reach it, and what it brought stays until the next change.
CacheIsCurrent == cache # NoRows => cache = stored \/ Excused

\* A save that writes nothing had nothing to write, with the same exception.
SkippedSaveIsStored ==
  [][\A c \in Clients :
       (client[c].at # "unchanged" /\ client'[c].at = "unchanged") =>
         stored[client[c].key] = client[c].value \/ old.query \/ Excused]_settingsVars
=============================================================================
