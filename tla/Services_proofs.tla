-------------------------- MODULE Services_proofs --------------------------
(***************************************************************************)
(* The services beside the calls: the contacts, the settings and the live  *)
(* board.  They share no state; each has a section of its own.             *)
(***************************************************************************)
EXTENDS ContactMatching, SettingsCache, LiveBoard, TLAPS

(***************************************************************************)
(* Both promises of findOrCreateContact, for any number of calls, editors  *)
(* and rows.  The invariant adds to them what a call knows of the row it   *)
(* is about to act upon, and that an insert which lost its race lost it to *)
(* a row of this person's that is still there or has been re-keyed since.  *)
(***************************************************************************)

ContactRow == [spelling : Spellings \cup {"unused", "somebody_else"}, deleted : BOOLEAN]
CallerState == [at : CallerSteps, row : ContactIds \cup {NoContact}, number : Spellings]
EditorState == [at : EditorSteps, row : ContactIds \cup {NoContact}, number : Spellings]

ContactTypeOK ==
  /\ contact \in [ContactIds -> ContactRow]
  /\ caller \in [Callers -> CallerState]
  /\ editor \in [Editors -> EditorState]
  /\ removals \in Nat /\ rekeys \in Nat
  /\ removedSince \in [Callers -> BOOLEAN]
  /\ rekeyedSince \in [Callers -> BOOLEAN]

CallerHasRow ==
  \A c \in Callers : caller[c].at \in {"revive", "attached"} => caller[c].row \in ContactIds

EditorHasRow == \A e \in Editors : editor[e].at = "restore" => editor[e].row \in ContactIds

WinnerIsThere ==
  \A c \in Callers : caller[c].at = "look_again" => AllRows # {} \/ rekeyedSince[c]

ContactInv ==
  /\ ContactTypeOK /\ CallerHasRow /\ EditorHasRow
  /\ WinnerIsThere /\ CallerIsResolved /\ CallerIsVisible

LEMMA ContactStarts == ContactInit => ContactInv
<1> SUFFICES ASSUME ContactInit PROVE ContactInv
  OBVIOUS
<1>1. ContactTypeOK
  <2>1. contact \in [ContactIds -> ContactRow]
    <3>1. contact \in [ContactIds -> {Unused} \cup [spelling : Spellings, deleted : BOOLEAN]]
      BY DEF ContactInit
    <3>2. Unused \in ContactRow
      BY DEF ContactRow, Unused
    <3>3. [spelling : Spellings, deleted : BOOLEAN] \subseteq ContactRow
      BY DEF ContactRow
    <3>4. \A i \in ContactIds : contact[i] \in ContactRow
      BY <3>1, <3>2, <3>3
    <3> QED BY <3>1, <3>4
  <2>2. caller \in [Callers -> CallerState]
    BY DEF ContactInit, CallerState, CallerSteps
  <2>3. editor \in [Editors -> EditorState]
    BY DEF ContactInit, EditorState, EditorSteps
  <2> QED BY <2>1, <2>2, <2>3 DEF ContactInit, ContactTypeOK
<1>2. \A c \in Callers : caller[c].at = "look"
  BY DEF ContactInit
<1>3. \A e \in Editors : editor[e].at = "idle"
  BY DEF ContactInit
<1> QED
  BY <1>1, <1>2, <1>3
     DEF ContactInv, CallerHasRow, EditorHasRow, WinnerIsThere, CallerIsResolved, CallerIsVisible

\* What a step of a call leaves alone: the others' records and, but for its own
\* look at the table, the history.
LEMMA CallerMoves ==
  ASSUME ContactInv, NEW c \in Callers,
         NEW step \in CallerSteps, NEW id \in ContactIds \cup {NoContact},
         CallerGoes(c, step, id), Sees(c), UNCHANGED <<editor, removals, rekeys, rekeyedSince>>,
         contact' \in [ContactIds -> ContactRow],
         \A i \in ContactIds : OfThePerson(i) => OfThePerson(i)',
         \A i \in ContactIds : ~contact[i].deleted => ~contact'[i].deleted,
         step \in {"revive", "attached"} => id \in ContactIds,
         step = "look_again" => AllRows' # {},
         step = "failed" => rekeyedSince[c],
         step = "attached" => ~contact'[id].deleted
  PROVE  ContactInv'
<1> USE DEF ContactInv
<1>1. caller' \in [Callers -> CallerState]
  BY DEF CallerGoes, ContactTypeOK, CallerState
<1>2. /\ caller'[c].at = step /\ caller'[c].row = id
      /\ \A d \in Callers \ {c} : caller'[d] = caller[d]
  BY DEF CallerGoes, ContactTypeOK, CallerState
<1>3. /\ removedSince' \in [Callers -> BOOLEAN]
      /\ \A d \in Callers \ {c} : removedSince'[d] = removedSince[d]
  BY DEF Sees, ContactTypeOK
<1>4. ContactTypeOK'
  BY <1>1, <1>3 DEF ContactTypeOK
<1>5. CallerHasRow'
  BY <1>2 DEF CallerHasRow
<1>6. EditorHasRow'
  BY DEF EditorHasRow
<1>7. AllRows # {} => AllRows' # {}
  BY DEF AllRows
<1>8. WinnerIsThere'
  BY <1>2, <1>7 DEF WinnerIsThere
<1>9. CallerIsResolved'
  BY <1>2 DEF CallerIsResolved
<1>10. CallerIsVisible'
  BY <1>2, <1>3 DEF CallerIsVisible, CallerHasRow
<1> QED BY <1>4, <1>5, <1>6, <1>8, <1>9, <1>10

LEMMA BestMatchesMatch ==
  ASSUME NEW c \in Callers, NEW ids, NEW id \in BestMatches(c, ids)
  PROVE  id \in ids
BY DEF BestMatches

LEMMA CallerStepKeeps ==
  ASSUME ContactInv, NEW c \in Callers,
         \/ FindContactByPhone(c) \/ FindDeleted(c) \/ InsertContact(c)
         \/ LookAgain(c) \/ ReviveContact(c)
  PROVE  ContactInv'
<1>1. contact \in [ContactIds -> ContactRow]
  BY DEF ContactInv, ContactTypeOK
<1>2. LiveRows \subseteq ContactIds /\ AllRows \subseteq ContactIds
  BY DEF LiveRows, AllRows
<1>3. CASE FindContactByPhone(c)
  <2>1. CASE LiveRows = {}
    BY <1>1, <1>3, <2>1, CallerMoves DEF FindContactByPhone, CallerSteps, OfThePerson
  <2>2. CASE LiveRows # {}
    <3>1. PICK id \in BestMatches(c, LiveRows) : CallerGoes(c, "attached", id)
      BY <1>3, <2>2 DEF FindContactByPhone
    <3>2. id \in ContactIds /\ ~contact[id].deleted
      BY <3>1, BestMatchesMatch DEF LiveRows
    <3> QED BY <1>1, <1>3, <3>1, <3>2, CallerMoves DEF FindContactByPhone, CallerSteps, OfThePerson
  <2> QED BY <2>1, <2>2
<1>4. CASE FindDeleted(c)
  <2>1. CASE AllRows = {}
    BY <1>1, <1>4, <2>1, CallerMoves DEF FindDeleted, CallerSteps, OfThePerson
  <2>2. CASE AllRows # {}
    <3>1. PICK id \in BestMatches(c, AllRows) : CallerGoes(c, "revive", id)
      BY <1>4, <2>2 DEF FindDeleted
    <3>2. id \in ContactIds
      BY <1>2, <3>1, BestMatchesMatch
    <3> QED BY <1>1, <1>4, <3>1, <3>2, CallerMoves DEF FindDeleted, CallerSteps, OfThePerson
  <2> QED BY <2>1, <2>2
<1>5. CASE InsertContact(c)
  <2>1. CASE Taken(Canonical) /\ CallerGoes(c, "look_again", NoContact) /\ UNCHANGED contact
    <3>1. AllRows' # {}
      BY <2>1 DEF Taken, AllRows, OfThePerson, Canonical, Spellings
    <3> QED BY <1>1, <1>5, <2>1, <3>1, CallerMoves DEF InsertContact, CallerSteps, OfThePerson
  <2>2. ASSUME NEW id \in ContactIds, contact[id] = Unused,
               contact' = [contact EXCEPT ![id] = [spelling |-> Canonical, deleted |-> FALSE]],
               CallerGoes(c, "attached", id)
        PROVE  ContactInv'
    <3>1. contact' \in [ContactIds -> ContactRow]
      BY <1>1, <2>2 DEF ContactRow, Canonical, Spellings
    <3>2. /\ \A i \in ContactIds : OfThePerson(i) => OfThePerson(i)'
          /\ \A i \in ContactIds : ~contact[i].deleted => ~contact'[i].deleted
          /\ ~contact'[id].deleted
      BY <1>1, <2>2 DEF OfThePerson, Canonical, Spellings
    <3> QED BY <1>5, <2>2, <3>1, <3>2, CallerMoves DEF InsertContact, CallerSteps
  <2> QED BY <1>5, <2>1, <2>2 DEF InsertContact
<1>6. CASE LookAgain(c)
  <2>1. CASE AllRows = {}
    <3>1. rekeyedSince[c]
      BY <1>6, <2>1 DEF LookAgain, ContactInv, WinnerIsThere
    <3> QED BY <1>1, <1>6, <2>1, <3>1, CallerMoves DEF LookAgain, AfterTheRace, CallerSteps, OfThePerson
  <2>2. CASE AllRows # {}
    <3>1. PICK id \in BestMatches(c, AllRows) :
            CallerGoes(c, IF contact[id].deleted THEN "revive" ELSE "attached", id)
      BY <1>6, <2>2 DEF LookAgain, AfterTheRace
    <3>2. id \in ContactIds
      BY <1>2, <3>1, BestMatchesMatch
    <3>3. CASE contact[id].deleted
      BY <1>1, <1>6, <3>1, <3>2, <3>3, CallerMoves DEF LookAgain, CallerSteps, OfThePerson
    <3>4. CASE ~contact[id].deleted
      BY <1>1, <1>6, <3>1, <3>2, <3>4, CallerMoves DEF LookAgain, CallerSteps, OfThePerson
    <3> QED BY <3>3, <3>4
  <2> QED BY <2>1, <2>2
<1>7. CASE ReviveContact(c)
  <2> DEFINE id == caller[c].row
  <2>1. id \in ContactIds
    BY <1>7 DEF ReviveContact, ContactInv, CallerHasRow
  <2>2. contact' = [contact EXCEPT ![id].deleted = FALSE]
    BY <1>7 DEF ReviveContact, Revived
  <2>3. contact' \in [ContactIds -> ContactRow]
    BY <1>1, <2>1, <2>2 DEF ContactRow
  <2>4. /\ \A i \in ContactIds : OfThePerson(i) => OfThePerson(i)'
        /\ \A i \in ContactIds : ~contact[i].deleted => ~contact'[i].deleted
        /\ ~contact'[id].deleted
    BY <1>1, <2>1, <2>2 DEF OfThePerson, ContactRow
  <2> QED BY <1>7, <2>1, <2>3, <2>4, CallerMoves DEF ReviveContact, CallerSteps
<1> QED BY <1>3, <1>4, <1>5, <1>6, <1>7

\* An operator's step that takes no row of this person's away keeps everything.
LEMMA EditorMoves ==
  ASSUME ContactInv, UNCHANGED <<caller, removals, rekeys, removedSince, rekeyedSince>>,
         editor' \in [Editors -> EditorState], EditorHasRow',
         contact' \in [ContactIds -> ContactRow],
         \A i \in ContactIds : OfThePerson(i) => OfThePerson(i)',
         \A i \in ContactIds : ~contact[i].deleted => ~contact'[i].deleted
  PROVE  ContactInv'
<1> USE DEF ContactInv
<1>1. ContactTypeOK' /\ CallerHasRow'
  BY DEF ContactTypeOK, CallerHasRow
<1>2. AllRows # {} => AllRows' # {}
  BY DEF AllRows
<1>3. WinnerIsThere' /\ CallerIsResolved'
  BY <1>2 DEF WinnerIsThere, CallerIsResolved
<1>4. CallerIsVisible'
  BY DEF CallerIsVisible, CallerHasRow
<1> QED BY <1>1, <1>3, <1>4

LEMMA EditorGoesTyped ==
  ASSUME ContactInv, NEW e \in Editors, NEW step \in EditorSteps,
         NEW id \in ContactIds \cup {NoContact}, EditorGoes(e, step, id),
         step = "restore" => id \in ContactIds
  PROVE  editor' \in [Editors -> EditorState] /\ EditorHasRow'
BY DEF EditorGoes, EditorState, ContactInv, ContactTypeOK, EditorHasRow

LEMMA EditorStepKeeps ==
  ASSUME ContactInv, NEW e \in Editors,
         CreateLooks(e) \/ CreateInserts(e) \/ CreateRestores(e)
  PROVE  ContactInv'
<1>1. contact \in [ContactIds -> ContactRow]
  BY DEF ContactInv, ContactTypeOK
<1>2. CASE CreateLooks(e)
  <2>1. PICK step \in {"insert", "restore", "done"}, id \in ContactIds \cup {NoContact} :
          EditorGoes(e, step, id) /\ (step = "restore" => id \in ContactIds)
    BY <1>2 DEF CreateLooks
  <2>2. editor' \in [Editors -> EditorState] /\ EditorHasRow'
    BY <2>1, EditorGoesTyped DEF EditorSteps
  <2> QED BY <1>1, <1>2, <2>2, EditorMoves DEF CreateLooks, OfThePerson
<1>3. CASE CreateInserts(e)
  <2>1. editor' \in [Editors -> EditorState] /\ EditorHasRow'
    BY <1>3, EditorGoesTyped DEF CreateInserts, EditorSteps
  <2>2. CASE UNCHANGED contact
    BY <1>1, <1>3, <2>1, <2>2, EditorMoves DEF CreateInserts, OfThePerson
  <2>3. ASSUME NEW id \in ContactIds, contact[id] = Unused,
               contact' =
                 [contact EXCEPT ![id] = [spelling |-> editor[e].number, deleted |-> FALSE]]
        PROVE  ContactInv'
    <3>1. editor[e].number \in Spellings
      BY DEF ContactInv, ContactTypeOK, EditorState
    <3>2. contact' \in [ContactIds -> ContactRow]
      BY <1>1, <2>3, <3>1 DEF ContactRow
    <3>3. /\ \A i \in ContactIds : OfThePerson(i) => OfThePerson(i)'
          /\ \A i \in ContactIds : ~contact[i].deleted => ~contact'[i].deleted
      BY <1>1, <2>3, <3>1 DEF OfThePerson
    <3> QED BY <1>3, <2>1, <3>2, <3>3, EditorMoves DEF CreateInserts
  <2> QED BY <1>3, <2>2, <2>3 DEF CreateInserts
<1>4. CASE CreateRestores(e)
  <2> DEFINE id == editor[e].row
  <2>1. id \in ContactIds
    BY <1>4 DEF CreateRestores, ContactInv, EditorHasRow
  <2>2. editor' \in [Editors -> EditorState] /\ EditorHasRow'
    BY <1>4, <2>1, EditorGoesTyped DEF CreateRestores, EditorSteps
  <2>3. contact' = [contact EXCEPT ![id].deleted = FALSE]
    BY <1>4 DEF CreateRestores
  <2>4. contact' \in [ContactIds -> ContactRow]
    BY <1>1, <2>1, <2>3 DEF ContactRow
  <2>5. /\ \A i \in ContactIds : OfThePerson(i) => OfThePerson(i)'
        /\ \A i \in ContactIds : ~contact[i].deleted => ~contact'[i].deleted
    BY <1>1, <2>1, <2>3 DEF OfThePerson, ContactRow
  <2> QED BY <1>4, <2>2, <2>4, <2>5, EditorMoves DEF CreateRestores
<1> QED BY <1>2, <1>3, <1>4

LEMMA RemovalKeeps ==
  ASSUME ContactInv, NEW id \in ContactIds, RemoveContact(id)
  PROVE  ContactInv'
<1> USE DEF ContactInv
<1>1. contact' \in [ContactIds -> ContactRow]
  BY DEF RemoveContact, ContactTypeOK, ContactRow
<1>2. \A i \in ContactIds : OfThePerson(i) => OfThePerson(i)'
  BY DEF RemoveContact, ContactTypeOK, ContactRow, OfThePerson
<1>3. removedSince' = [c \in Callers |-> TRUE]
  BY DEF RemoveContact
<1>4. ContactTypeOK'
  BY <1>1, <1>3 DEF RemoveContact, ContactTypeOK
<1>5. AllRows # {} => AllRows' # {}
  BY <1>2 DEF AllRows
<1>6. CallerHasRow' /\ EditorHasRow' /\ WinnerIsThere' /\ CallerIsResolved'
  BY <1>5 DEF RemoveContact, CallerHasRow, EditorHasRow, WinnerIsThere, CallerIsResolved
<1>7. CallerIsVisible'
  BY <1>3 DEF CallerIsVisible
<1> QED BY <1>4, <1>6, <1>7

LEMMA RekeyKeeps ==
  ASSUME ContactInv, NEW id \in ContactIds, NEW s \in Spellings \cup {"somebody_else"},
         RekeyContact(id, s)
  PROVE  ContactInv'
<1> USE DEF ContactInv
<1>1. contact' \in [ContactIds -> ContactRow]
  BY DEF RekeyContact, ContactTypeOK, ContactRow
<1>2. \A i \in ContactIds : contact'[i].deleted = contact[i].deleted
  BY DEF RekeyContact, ContactTypeOK, ContactRow
<1>3. \A c \in Callers : /\ rekeyedSince[c] => rekeyedSince'[c]
                         /\ caller[c].at = "look_again" => rekeyedSince'[c]
  BY DEF RekeyContact
<1>4. rekeyedSince' \in [Callers -> BOOLEAN]
  BY DEF RekeyContact, ContactTypeOK
<1>5. ContactTypeOK'
  BY <1>1, <1>4 DEF RekeyContact, ContactTypeOK
<1>6. CallerHasRow' /\ EditorHasRow' /\ WinnerIsThere' /\ CallerIsResolved'
  BY <1>3 DEF RekeyContact, CallerHasRow, EditorHasRow, WinnerIsThere, CallerIsResolved
<1>7. CallerIsVisible'
  BY <1>2 DEF RekeyContact, CallerIsVisible, CallerHasRow
<1> QED BY <1>5, <1>6, <1>7

LEMMA ContactStepKeeps == ContactInv /\ [ContactNext]_contactVars => ContactInv'
<1> SUFFICES ASSUME ContactInv, [ContactNext]_contactVars PROVE ContactInv'
  OBVIOUS
<1>1. CASE UNCHANGED contactVars
  BY <1>1
     DEF contactVars, ContactInv, ContactTypeOK, CallerHasRow, EditorHasRow, WinnerIsThere,
         CallerIsResolved, CallerIsVisible, AllRows, OfThePerson
<1> QED
  BY <1>1, CallerStepKeeps, EditorStepKeeps, RemovalKeeps, RekeyKeeps DEF ContactNext

\* No interleaving of the calls of one person with each other and with operators
\* who create, remove and re-key the contact turns a call away, unless the row
\* that won the insert's race was re-keyed before it was looked at again.
THEOREM CallersAreResolved == ContactSpec => []CallerIsResolved
<1>1. ContactInv => CallerIsResolved
  BY DEF ContactInv
<1> QED BY <1>1, ContactStarts, ContactStepKeeps, PTL DEF ContactSpec

\* A call's contact is a live row, unless somebody removed it after the call had
\* looked.
THEOREM CallersAreVisible == ContactSpec => []CallerIsVisible
<1>1. ContactInv => CallerIsVisible
  BY DEF ContactInv
<1> QED BY <1>1, ContactStarts, ContactStepKeeps, PTL DEF ContactSpec


(***************************************************************************)
(* The cache serves what the table holds, for any number of keys, values   *)
(* and requests.  The invariant adds what the query on its way has read:   *)
(* the rows of the table as it is, or a commit has overtaken it and `old'  *)
(* says so.                                                                *)
(***************************************************************************)

ReadsAreCurrent == query.at = "read" => query.rows = stored \/ old.query

SettingsInv == SettingsTypeOK /\ ReadsAreCurrent /\ CacheIsCurrent

LEMMA StartsCurrent == SettingsInit => SettingsInv
BY SettingsAssumption
   DEF SettingsInit, SettingsInv, SettingsTypeOK, ReadsAreCurrent, CacheIsCurrent, NoQuery,
       Rows, ClientSteps, Kinds

\* A request that goes on stays a request, and is not about to drop the cache.
LEMMA ResumedTyped ==
  ASSUME NEW r \in [at : ClientSteps, wants : Kinds, key : Keys, value : Values], NEW rows
  PROVE  /\ Resumed(r, rows) \in [at : ClientSteps, wants : Kinds, key : Keys, value : Values]
         /\ Resumed(r, rows).at # "invalidate"
         /\ Resumed(r, rows).at = "unchanged" => r.value = rows[r.key]
BY DEF Resumed, Unchanged, ClientSteps

LEMMA LoadKeeps ==
  ASSUME SettingsInv, NEW c \in Clients, client[c].at # "invalidate", Load(c)
  PROVE  SettingsInv'
<1> DEFINE Request == [at : ClientSteps, wants : Kinds, key : Keys, value : Values]
<1>1. client[c] \in Request
  BY DEF SettingsInv, SettingsTypeOK
<1>2. CASE /\ cache # NoRows /\ client[c].wants # "refresh"
           /\ client' = [client EXCEPT ![c] = Resumed(@, cache)]
           /\ UNCHANGED <<stored, cache, query, old>>
  <2>1. Resumed(client[c], cache) \in Request
    BY <1>1, ResumedTyped
  <2>2. SettingsTypeOK'
    BY <1>2, <2>1 DEF SettingsInv, SettingsTypeOK
  <2>3. Excused => Excused'
    BY <1>2 DEF Excused, SettingsInv, SettingsTypeOK
  <2> QED BY <1>2, <2>2, <2>3 DEF SettingsInv, ReadsAreCurrent, CacheIsCurrent
<1>3. CASE /\ cache = NoRows \/ client[c].wants = "refresh"
           /\ cache' = NoRows
           /\ client' = [client EXCEPT ![c].at = "waiting"]
           /\ IF query.at # "none" THEN UNCHANGED <<query, old>>
              ELSE /\ query' = [at |-> "sent", rows |-> NoRows]
                   /\ old' = [old EXCEPT !.query = FALSE]
           /\ UNCHANGED stored
  <2>1. [client[c] EXCEPT !.at = "waiting"] \in Request
    BY <1>1 DEF ClientSteps
  <2>2. client' \in [Clients -> Request]
    BY <1>3, <2>1 DEF SettingsInv, SettingsTypeOK
  <2>3. query' \in [at : {"none", "sent", "read"}, rows : Rows \cup {NoRows}]
    BY <1>3 DEF SettingsInv, SettingsTypeOK
  <2>4. old' \in [query : BOOLEAN, cache : BOOLEAN]
    BY <1>3 DEF SettingsInv, SettingsTypeOK
  <2>5. SettingsTypeOK'
    BY <1>3, <2>2, <2>3, <2>4 DEF SettingsInv, SettingsTypeOK
  <2> QED BY <1>3, <2>5 DEF SettingsInv, ReadsAreCurrent, CacheIsCurrent
<1> QED BY <1>2, <1>3 DEF Load

LEMMA AnswersKeep == SettingsInv /\ QueryAnswers => SettingsInv'
<1> SUFFICES ASSUME SettingsInv, QueryAnswers PROVE SettingsInv'
  OBVIOUS
<1> DEFINE Request == [at : ClientSteps, wants : Kinds, key : Keys, value : Values]
<1>1. query.rows \in Rows \cup {NoRows}
  BY DEF SettingsInv, SettingsTypeOK
<1>2. \A c \in Clients : client'[c] \in Request
  <2> TAKE c \in Clients
  <2>1. client[c] \in Request
    BY DEF SettingsInv, SettingsTypeOK
  <2>2. Resumed(client[c], query.rows) \in Request
    BY <2>1, ResumedTyped
  <2> QED BY <2>1, <2>2 DEF QueryAnswers
<1>3. client' \in [Clients -> Request]
  BY <1>2 DEF QueryAnswers
<1>4. SettingsTypeOK'
  BY <1>1, <1>3 DEF QueryAnswers, SettingsInv, SettingsTypeOK, NoQuery
<1>5. CacheIsCurrent'
  BY DEF QueryAnswers, SettingsInv, SettingsTypeOK, ReadsAreCurrent, CacheIsCurrent, Excused
<1>6. ReadsAreCurrent'
  BY DEF QueryAnswers, ReadsAreCurrent, NoQuery
<1> QED BY <1>4, <1>5, <1>6 DEF SettingsInv

LEMMA NextKeeps == SettingsInv /\ [SettingsNext]_settingsVars => SettingsInv'
<1> SUFFICES ASSUME SettingsInv, [SettingsNext]_settingsVars PROVE SettingsInv'
  OBVIOUS
<1> USE DEF SettingsInv, SettingsTypeOK
<1>1. CASE QueryReads
  BY <1>1 DEF QueryReads, ReadsAreCurrent, CacheIsCurrent, Excused, Rows
<1>2. CASE QueryAnswers
  BY <1>2, AnswersKeep
<1>3. CASE QueryFails
  <2>1. SettingsTypeOK'
    BY <1>3 DEF QueryFails, NoQuery, ClientSteps
  <2>2. Excused => Excused'
    BY <1>3 DEF QueryFails, Excused
  <2> QED BY <1>3, <2>1, <2>2 DEF QueryFails, NoQuery, ReadsAreCurrent, CacheIsCurrent
<1>4. ASSUME NEW c \in Clients, BeginRequest(c) PROVE SettingsInv'
  BY <1>4, LoadKeeps DEF BeginRequest
<1>5. ASSUME NEW c \in Clients, BeginReset(c) PROVE SettingsInv'
  <2> DEFINE Request == [at : ClientSteps, wants : Kinds, key : Keys, value : Values]
  <2>1. [client[c] EXCEPT !.at = "commit", !.value = Default] \in Request
    BY SettingsAssumption DEF ClientSteps
  <2>2. client' = [client EXCEPT ![c] = [client[c] EXCEPT !.at = "commit", !.value = Default]]
    BY <1>5 DEF BeginReset
  <2>3. SettingsTypeOK'
    BY <1>5, <2>1, <2>2 DEF BeginReset
  <2>4. Excused => Excused'
    BY <1>5 DEF BeginReset, Excused
  <2> QED BY <1>5, <2>3, <2>4 DEF BeginReset, ReadsAreCurrent, CacheIsCurrent
<1>6. ASSUME NEW c \in Clients, Commit(c) PROVE SettingsInv'
  <2>1. SettingsTypeOK'
    BY <1>6 DEF Commit, ClientSteps, Rows
  <2>2. Excused'
    BY <1>6 DEF Commit, Excused
  <2> QED BY <1>6, <2>1, <2>2 DEF Commit, ReadsAreCurrent, CacheIsCurrent
<1>7. ASSUME NEW c \in Clients, CommitFails(c) PROVE SettingsInv'
  <2>1. SettingsTypeOK'
    BY <1>7 DEF CommitFails, ClientSteps
  <2>2. Excused => Excused'
    BY <1>7 DEF CommitFails, Excused
  <2> QED BY <1>7, <2>1, <2>2 DEF CommitFails, ReadsAreCurrent, CacheIsCurrent
<1>8. ASSUME NEW c \in Clients, Invalidate(c) PROVE SettingsInv'
  BY <1>8 DEF Invalidate, Dropped, ClientSteps, ReadsAreCurrent, CacheIsCurrent
<1>9. CASE UNCHANGED settingsVars
  BY <1>9 DEF settingsVars, ReadsAreCurrent, CacheIsCurrent, Excused
<1> QED BY <1>1, <1>2, <1>3, <1>4, <1>5, <1>6, <1>7, <1>8, <1>9 DEF SettingsNext

\* Whatever reads, saves, resets and refreshes overlap, the cache holds what the
\* table holds, but for a commit that has yet to drop it and for a query that a
\* commit overtook (loadCache, invalidateSettingsCache).
THEOREM CacheStaysCurrent == SettingsSpec => []CacheIsCurrent
<1>1. SettingsInv => CacheIsCurrent
  BY DEF SettingsInv
<1> QED BY <1>1, StartsCurrent, NextKeeps, PTL DEF SettingsSpec

LEMMA SkipsAreJust ==
  ASSUME SettingsInv, [SettingsNext]_settingsVars, NEW c \in Clients,
         client[c].at # "unchanged", client'[c].at = "unchanged"
  PROVE  stored[client[c].key] = client[c].value \/ old.query \/ Excused
<1> USE DEF SettingsInv, SettingsTypeOK
<1>1. ASSUME NEW d \in Clients, BeginRequest(d)
      PROVE  stored[client[c].key] = client[c].value \/ Excused
  <2>1. d = c
    BY <1>1 DEF BeginRequest, Load
  <2>2. cache # NoRows /\ client'[c] = Resumed(client[c], cache)
    BY <1>1, <2>1 DEF BeginRequest, Load
  <2>3. client[c].value = cache[client[c].key]
    BY <2>2, ResumedTyped
  <2> QED BY <2>2, <2>3 DEF CacheIsCurrent
<1>2. CASE QueryAnswers
  <2>1. client'[c] = Resumed(client[c], query.rows)
    BY <1>2 DEF QueryAnswers
  <2>2. client[c].value = query.rows[client[c].key]
    BY <2>1, ResumedTyped
  <2> QED BY <1>2, <2>2 DEF QueryAnswers, ReadsAreCurrent
<1>3. ~QueryReads /\ ~QueryFails
  BY DEF QueryReads, QueryFails
<1>4. \A d \in Clients : ~BeginReset(d) /\ ~Commit(d) /\ ~CommitFails(d) /\ ~Invalidate(d)
  BY DEF BeginReset, Commit, CommitFails, Invalidate
<1>5. ~UNCHANGED settingsVars
  BY DEF settingsVars
<1> QED BY <1>1, <1>2, <1>3, <1>4, <1>5 DEF SettingsNext

\* A save that setSettings skips as unchanged is what the table holds already,
\* with the same two exceptions.
THEOREM SkippedSavesAreStored == SettingsSpec => SkippedSaveIsStored
<1>1. SettingsInv /\ [SettingsNext]_settingsVars =>
        [\A c \in Clients :
           (client[c].at # "unchanged" /\ client'[c].at = "unchanged") =>
             stored[client[c].key] = client[c].value \/ old.query \/ Excused]_settingsVars
  BY SkipsAreJust
<1> QED BY <1>1, StartsCurrent, NextKeeps, PTL DEF SettingsSpec, SkippedSaveIsStored


(***************************************************************************)
(* A row of the board keeps its end while it is there, for any number of   *)
(* calls and whatever the socket loses.  Two things are needed of the past *)
(* beside the shape of a row: that a call's end is broadcast once, so that *)
(* a row which has it gets no other that would start its retention again,  *)
(* and that none is on its way, or on the board, before the call is over.  *)
(***************************************************************************)

Statuses == {"open", "ended"}
Row == [on : BOOLEAN, status : Statuses, ended : BOOLEAN, age : Nat, endedAge : Nat]
Event == [type : {"snapshot", "ended"}, status : Statuses]

ServerSteps == {"coming", "live", "closing", "resumed", "over"}

BoardTypeOK ==
  /\ server \in [Calls -> ServerSteps]
  /\ wire \in [Calls -> Seq(Event)]
  /\ board \in [Calls -> Row]

NoEndOn(s) == \A i \in 1 .. Len(s) : s[i].type # "ended"
OneEndOn(s) ==
  \A i, j \in 1 .. Len(s) : s[i].type = "ended" /\ s[j].type = "ended" => i = j

OneEndOf(c) ==
  /\ OneEndOn(wire[c])
  /\ server[c] \in {"coming", "live"} => NoEndOn(wire[c]) /\ ~board[c].ended
  /\ board[c].ended => NoEndOn(wire[c])

BoardInv == BoardTypeOK /\ \A c \in Calls : OneEndOf(c)

\* What a step of the board may do to the row of a call.
EndKept(c) ==
  (board[c].on /\ board[c].ended /\ board'[c].on) =>
    board'[c].ended /\ board'[c].endedAge >= board[c].endedAge

LEMMA SnapshotIsNoEnd ==
  ASSUME NEW s \in Seq(Event), NEW e \in Event, e.type # "ended"
  PROVE  /\ Append(s, e) \in Seq(Event)
         /\ NoEndOn(s) => NoEndOn(Append(s, e))
         /\ OneEndOn(s) => OneEndOn(Append(s, e))
<1>1. /\ Len(Append(s, e)) = Len(s) + 1 /\ Len(s) \in Nat
      /\ \A i \in 1 .. Len(s) : Append(s, e)[i] = s[i]
      /\ Append(s, e)[Len(s) + 1] = e
  OBVIOUS
<1>2. \A i \in 1 .. Len(s) + 1 : i \in 1 .. Len(s) \/ i = Len(s) + 1
  BY <1>1
<1> QED BY <1>1, <1>2 DEF NoEndOn, OneEndOn

LEMMA TheFirstEnd ==
  ASSUME NEW s \in Seq(Event), NEW e \in Event, NoEndOn(s)
  PROVE  Append(s, e) \in Seq(Event) /\ OneEndOn(Append(s, e))
<1>1. /\ Len(Append(s, e)) = Len(s) + 1 /\ Len(s) \in Nat
      /\ \A i \in 1 .. Len(s) : Append(s, e)[i] = s[i]
  OBVIOUS
<1>2. \A i \in 1 .. Len(s) + 1 : i \in 1 .. Len(s) \/ i = Len(s) + 1
  BY <1>1
<1> QED BY <1>1, <1>2 DEF NoEndOn, OneEndOn

LEMMA TheNextEvent ==
  ASSUME NEW s \in Seq(Event), s # <<>>, OneEndOn(s)
  PROVE  /\ Head(s) \in Event /\ Tail(s) \in Seq(Event)
         /\ OneEndOn(Tail(s))
         /\ NoEndOn(s) => NoEndOn(Tail(s)) /\ Head(s).type # "ended"
         /\ Head(s).type = "ended" => NoEndOn(Tail(s))
<1>1. /\ Len(s) \in Nat \ {0} /\ Len(Tail(s)) = Len(s) - 1
      /\ \A i \in 1 .. Len(s) - 1 : Tail(s)[i] = s[i + 1]
      /\ Head(s) = s[1]
  OBVIOUS
<1>2. \A i \in 1 .. Len(s) - 1 : i + 1 \in 1 .. Len(s) /\ i + 1 # 1
  BY <1>1
<1>3. 1 \in 1 .. Len(s)
  BY <1>1
<1>4. Head(s) \in Event /\ Tail(s) \in Seq(Event)
  OBVIOUS
<1>5. OneEndOn(Tail(s))
  <2> SUFFICES ASSUME NEW i \in 1 .. Len(s) - 1, NEW j \in 1 .. Len(s) - 1,
                      s[i + 1].type = "ended", s[j + 1].type = "ended"
               PROVE  i = j
    BY <1>1 DEF OneEndOn
  <2>1. i + 1 = j + 1
    BY <1>2 DEF OneEndOn
  <2> QED BY <2>1, <1>1
<1>6. NoEndOn(s) => NoEndOn(Tail(s)) /\ Head(s).type # "ended"
  BY <1>1, <1>2, <1>3 DEF NoEndOn
<1>7. Head(s).type = "ended" => NoEndOn(Tail(s))
  <2> SUFFICES ASSUME s[1].type = "ended", NEW i \in 1 .. Len(s) - 1, s[i + 1].type = "ended"
               PROVE  FALSE
    BY <1>1 DEF NoEndOn
  <2>1. i + 1 = 1
    BY <1>2, <1>3 DEF OneEndOn
  <2> QED BY <2>1, <1>2
<1> QED BY <1>4, <1>5, <1>6, <1>7

(***************************************************************************)
(* The orchestrator and the socket                                         *)
(***************************************************************************)
\* A snapshot tells of no end.
LEMMA SnapshotsKeep ==
  ASSUME BoardInv, NEW c \in Calls, NEW status \in Statuses, Broadcast(c, "snapshot", status),
         UNCHANGED board, server' \in [Calls -> ServerSteps],
         \A d \in Calls : server'[d] \in {"coming", "live"} => server[d] \in {"coming", "live"}
  PROVE  BoardInv'
<1> DEFINE e == [type |-> "snapshot", status |-> status]
<1>1. e \in Event /\ e.type # "ended" /\ wire[c] \in Seq(Event)
  BY DEF Event, BoardInv, BoardTypeOK
<1>2. wire' = wire \/ wire' = [wire EXCEPT ![c] = Append(wire[c], e)]
  BY DEF Broadcast
<1> HIDE DEF e
<1>3. /\ Append(wire[c], e) \in Seq(Event)
      /\ NoEndOn(wire[c]) => NoEndOn(Append(wire[c], e))
      /\ OneEndOn(wire[c]) => OneEndOn(Append(wire[c], e))
  BY <1>1, SnapshotIsNoEnd
<1>4. wire' \in [Calls -> Seq(Event)]
  BY <1>2, <1>3 DEF BoardInv, BoardTypeOK
<1>5. \A d \in Calls : (NoEndOn(wire[d]) => NoEndOn(wire'[d])) /\ (OneEndOn(wire[d]) => OneEndOn(wire'[d]))
  BY <1>2, <1>3 DEF BoardInv, BoardTypeOK
<1> QED BY <1>4, <1>5 DEF BoardInv, BoardTypeOK, OneEndOf

LEMMA EndKeeps ==
  ASSUME BoardInv, NEW c \in Calls, CallEnds(c)
  PROVE  BoardInv'
<1> DEFINE e == [type |-> "ended", status |-> "ended"]
<1>1. e \in Event /\ wire[c] \in Seq(Event)
  BY DEF Event, Statuses, BoardInv, BoardTypeOK
<1>2. wire' = wire \/ wire' = [wire EXCEPT ![c] = Append(wire[c], e)]
  BY DEF CallEnds, Broadcast
<1>3. /\ UNCHANGED board /\ server[c] = "live"
      /\ server' = [server EXCEPT ![c] = "closing"]
  BY DEF CallEnds
<1>4. NoEndOn(wire[c]) /\ ~board[c].ended
  BY <1>3 DEF BoardInv, OneEndOf
<1> HIDE DEF e
<1>5. Append(wire[c], e) \in Seq(Event) /\ OneEndOn(Append(wire[c], e))
  BY <1>1, <1>4, TheFirstEnd
<1>6. wire' \in [Calls -> Seq(Event)]
  BY <1>2, <1>5 DEF BoardInv, BoardTypeOK
<1>7. /\ server' \in [Calls -> ServerSteps] /\ server'[c] \notin {"coming", "live"}
      /\ \A d \in Calls : d # c => server'[d] = server[d]
  BY <1>3 DEF BoardInv, BoardTypeOK, ServerSteps
<1>8. OneEndOf(c)'
  BY <1>2, <1>3, <1>4, <1>5, <1>7 DEF BoardInv, BoardTypeOK, OneEndOf
<1>9. ASSUME NEW d \in Calls, d # c PROVE OneEndOf(d)'
  BY <1>2, <1>3, <1>7, <1>9 DEF BoardInv, BoardTypeOK, OneEndOf
<1> QED BY <1>3, <1>6, <1>7, <1>8, <1>9 DEF BoardInv, BoardTypeOK

LEMMA LossKeeps ==
  ASSUME BoardInv, ConnectionLost
  PROVE  BoardInv'
<1>1. wire' = [c \in Calls |-> <<>>] /\ UNCHANGED <<board, server>>
  BY DEF ConnectionLost
<1>2. \A c \in Calls : wire'[c] = <<>>
  BY <1>1
<1>3. wire' \in [Calls -> Seq(Event)]
  BY <1>1
<1>4. NoEndOn(<<>>) /\ OneEndOn(<<>>)
  BY DEF NoEndOn, OneEndOn
<1> QED BY <1>1, <1>2, <1>3, <1>4 DEF BoardInv, BoardTypeOK, OneEndOf

(***************************************************************************)
(* The store                                                               *)
(***************************************************************************)
LEMMA NoRowIsRow == NoRow \in Row
BY DEF NoRow, Row, Statuses

\* A snapshot sets a row's status; the end of a row that is there it leaves.
LEMMA RowFromKeeps ==
  ASSUME NEW row \in Row, NEW status \in Statuses
  PROVE  /\ RowFrom(row, status) \in Row
         /\ RowFrom(row, status).ended => row.ended
         /\ row.on => /\ RowFrom(row, status).ended = row.ended
                      /\ RowFrom(row, status).endedAge = row.endedAge
BY DEF RowFrom, NoRow, Row, Statuses

LEMMA EndedNowIsRow ==
  ASSUME NEW row \in Row
  PROVE  EndedNow(row) \in Row /\ EndedNow(row).ended
BY DEF EndedNow, Row, Statuses

LEMMA OlderGrows == ASSUME NEW a \in Nat, NEW limit PROVE Older(a, limit) \in Nat /\ Older(a, limit) >= a
BY DEF Older

LEMMA EventKeeps ==
  ASSUME BoardInv, NEW c \in Calls, ReceiveEvent(c)
  PROVE  BoardInv' /\ \A d \in Calls : EndKept(d)
<1>1. board[c] \in Row /\ wire[c] \in Seq(Event) /\ wire[c] # <<>> /\ OneEndOn(wire[c])
  BY DEF ReceiveEvent, BoardInv, BoardTypeOK, OneEndOf
<1>2. /\ Head(wire[c]) \in Event /\ Tail(wire[c]) \in Seq(Event)
      /\ OneEndOn(Tail(wire[c]))
      /\ NoEndOn(wire[c]) => NoEndOn(Tail(wire[c])) /\ Head(wire[c]).type # "ended"
      /\ Head(wire[c]).type = "ended" => NoEndOn(Tail(wire[c]))
  BY <1>1, TheNextEvent
<1> DEFINE type == Head(wire[c]).type
           received == CASE type = "snapshot" -> RowFrom(board[c], Head(wire[c]).status)
                         [] type = "ended" /\ board[c].on -> EndedNow(board[c])
                         [] OTHER -> board[c]
<1>3. board' = [board EXCEPT ![c] = received] /\ wire' = [wire EXCEPT ![c] = Tail(wire[c])]
  BY DEF ReceiveEvent
<1>4. server' = server
  BY DEF ReceiveEvent
<1>5. type \in {"snapshot", "ended"} /\ Head(wire[c]).status \in Statuses
  BY <1>2 DEF Event
<1>6. /\ received \in Row
      /\ received.ended => board[c].ended \/ type = "ended"
      /\ (board[c].on /\ type # "ended") =>
           received.ended = board[c].ended /\ received.endedAge = board[c].endedAge
  <2>1. CASE type = "snapshot"
    BY <1>1, <1>5, <2>1, RowFromKeeps
  <2>2. CASE type = "ended"
    BY <1>1, <2>2, EndedNowIsRow
  <2> QED BY <1>5, <2>1, <2>2
<1>7. board[c].ended => type # "ended"
  BY <1>2 DEF BoardInv, OneEndOf
<1>8. server[c] \in {"coming", "live"} => ~board[c].ended /\ type # "ended" /\ NoEndOn(Tail(wire[c]))
  BY <1>2 DEF BoardInv, OneEndOf
<1>9. received.ended => NoEndOn(Tail(wire[c]))
  BY <1>2, <1>6, <1>7 DEF BoardInv, OneEndOf
<1> HIDE DEF received, type
<1>10. board'[c] = received /\ wire'[c] = Tail(wire[c])
  BY <1>3 DEF BoardInv, BoardTypeOK
<1>11. \A d \in Calls : d # c => board'[d] = board[d] /\ wire'[d] = wire[d]
  BY <1>3 DEF BoardInv, BoardTypeOK
<1>12. BoardTypeOK'
  BY <1>2, <1>3, <1>4, <1>6 DEF BoardInv, BoardTypeOK
<1>13. OneEndOf(c)'
  BY <1>2, <1>4, <1>6, <1>8, <1>9, <1>10 DEF OneEndOf
<1>14. ASSUME NEW d \in Calls, d # c PROVE OneEndOf(d)' /\ EndKept(d)
  <2>1. board[d] \in Row
    BY DEF BoardInv, BoardTypeOK
  <2> QED BY <1>4, <1>11, <1>14, <2>1 DEF BoardInv, OneEndOf, EndKept, Row
<1>15. EndKept(c)
  <2> SUFFICES ASSUME board[c].on, board[c].ended PROVE EndKept(c)
    BY DEF EndKept
  <2>1. received.ended = board[c].ended /\ received.endedAge = board[c].endedAge
    BY <1>6, <1>7
  <2>2. board[c].endedAge \in Nat
    BY <1>1 DEF Row
  <2> QED BY <1>10, <2>1, <2>2 DEF EndKept
<1> QED BY <1>12, <1>13, <1>14, <1>15 DEF BoardInv

\* A step that leaves the events alone and ends no row.
LEMMA RowsKeep ==
  ASSUME BoardInv, UNCHANGED <<server, wire>>, board' \in [Calls -> Row],
         \A c \in Calls : board'[c].ended => board[c].ended
  PROVE  BoardInv'
BY DEF BoardInv, BoardTypeOK, OneEndOf

LEMMA HydrateKeeps ==
  ASSUME BoardInv, Hydrate
  PROVE  BoardInv' /\ \A c \in Calls : EndKept(c)
<1>1. ASSUME NEW c \in Calls
      PROVE  /\ HydratedRow(c) \in Row
             /\ HydratedRow(c).ended => board[c].ended
             /\ (board[c].on /\ board[c].ended /\ HydratedRow(c).on) =>
                  HydratedRow(c).ended /\ HydratedRow(c).endedAge >= board[c].endedAge
  <2>1. board[c] \in Row /\ "open" \in Statuses
    BY DEF BoardInv, BoardTypeOK, Statuses
  <2>2. CASE HydratedRow(c) = RowFrom(board[c], "open")
    BY <2>1, <2>2, RowFromKeeps DEF Row
  <2>3. CASE HydratedRow(c) = board[c]
    BY <2>1, <2>3 DEF Row
  <2>4. CASE HydratedRow(c) = NoRow
    BY <2>4, NoRowIsRow DEF NoRow
  <2> QED BY <2>2, <2>3, <2>4 DEF HydratedRow
<1>2. UNCHANGED <<server, wire>>
  BY DEF Hydrate
<1>3. CASE board' = board
  <2>1. \A c \in Calls : board[c] \in Row
    BY DEF BoardInv, BoardTypeOK
  <2>2. BoardInv'
    BY <1>2, <1>3 DEF BoardInv, BoardTypeOK, OneEndOf
  <2> QED BY <1>3, <2>1, <2>2 DEF EndKept, Row
<1>4. CASE board' = [c \in Calls |-> HydratedRow(c)]
  <2>1. board' \in [Calls -> Row] /\ \A c \in Calls : board'[c] = HydratedRow(c)
    BY <1>1, <1>4
  <2>2. BoardInv'
    BY <1>1, <1>2, <2>1, RowsKeep
  <2> QED BY <1>1, <2>1, <2>2 DEF EndKept
<1> QED BY <1>3, <1>4 DEF Hydrate

LEMMA PruneKeeps ==
  ASSUME BoardInv, Prune
  PROVE  BoardInv' /\ \A c \in Calls : EndKept(c)
<1>1. \A c \in Calls : board[c] \in Row
  BY DEF BoardInv, BoardTypeOK
<1>2. board' \in [Calls -> Row] /\ \A c \in Calls : board'[c] \in {NoRow, board[c]}
  BY <1>1, NoRowIsRow DEF Prune
<1>3. \A c \in Calls : (board'[c].ended => board[c].ended) /\ EndKept(c)
  BY <1>1, <1>2 DEF NoRow, EndKept, Row
<1>4. UNCHANGED <<server, wire>>
  BY DEF Prune
<1> QED BY <1>2, <1>3, <1>4, RowsKeep

LEMMA TickKeeps ==
  ASSUME BoardInv, Tick
  PROVE  BoardInv' /\ \A c \in Calls : EndKept(c)
<1>1. ASSUME NEW c \in Calls
      PROVE  /\ board'[c] \in Row
             /\ board'[c].ended = board[c].ended
             /\ board'[c].endedAge >= board[c].endedAge
  <2>1. board[c] \in Row
    BY DEF BoardInv, BoardTypeOK
  <2>2. CASE ~board[c].on
    <3>1. board'[c] = board[c]
      BY <2>2 DEF Tick
    <3>2. board[c].endedAge \in Nat
      BY <2>1 DEF Row
    <3> QED BY <2>1, <3>1, <3>2
  <2>3. CASE board[c].on
    <3> DEFINE younger == Older(board[c].age, Grace)
               ended == IF board[c].ended THEN Older(board[c].endedAge, Retention)
                        ELSE board[c].endedAge
    <3>1. younger \in Nat /\ ended \in Nat /\ ended >= board[c].endedAge
      BY <2>1, OlderGrows DEF Row
    <3>2. board'[c] = [board[c] EXCEPT !.age = younger, !.endedAge = ended]
      BY <2>3 DEF Tick
    <3> HIDE DEF younger, ended
    <3> QED BY <2>1, <3>1, <3>2 DEF Row
  <2> QED BY <2>2, <2>3
<1>2. board' \in [Calls -> Row] /\ UNCHANGED <<server, wire>>
  BY <1>1 DEF Tick
<1>3. BoardInv'
  BY <1>1, <1>2, RowsKeep
<1> QED BY <1>1, <1>3 DEF EndKept

(***************************************************************************)
(* The theorem                                                             *)
(***************************************************************************)
LEMMA BoardStarts == BoardInit => BoardInv
<1> SUFFICES ASSUME BoardInit PROVE BoardInv
  OBVIOUS
<1>1. wire \in [Calls -> Seq(Event)] /\ \A c \in Calls : wire[c] = <<>>
  BY DEF BoardInit
<1>2. NoEndOn(<<>>) /\ OneEndOn(<<>>)
  BY DEF NoEndOn, OneEndOn
<1>3. board \in [Calls -> Row] /\ \A c \in Calls : ~board[c].ended
  BY NoRowIsRow DEF BoardInit, NoRow
<1>4. server \in [Calls -> ServerSteps]
  BY DEF BoardInit, ServerSteps
<1> QED BY <1>1, <1>2, <1>3, <1>4 DEF BoardInv, BoardTypeOK, OneEndOf

\* A step that leaves the rows alone.
LEMMA EndsStay == ASSUME BoardInv, UNCHANGED board PROVE \A c \in Calls : EndKept(c)
BY DEF BoardInv, BoardTypeOK, Row, EndKept

LEMMA BoardSteps ==
  ASSUME BoardInv, [BoardNext]_boardVars
  PROVE  BoardInv' /\ \A c \in Calls : EndKept(c)
<1>1. ASSUME NEW c \in Calls, CallBegins(c) \/ CallUpdates(c) \/ TransferReturns(c)
      PROVE  BoardInv' /\ \A d \in Calls : EndKept(d)
  <2>1. PICK status \in Statuses : Broadcast(c, "snapshot", status)
    BY <1>1 DEF CallBegins, CallUpdates, TransferReturns, CallStatus, Statuses
  <2>2. /\ UNCHANGED board /\ server' \in [Calls -> ServerSteps]
        /\ \A d \in Calls : server'[d] \in {"coming", "live"} => server[d] \in {"coming", "live"}
    BY <1>1 DEF BoardInv, BoardTypeOK, ServerSteps, CallBegins, CallUpdates, TransferReturns
  <2> QED BY <2>1, <2>2, SnapshotsKeep, EndsStay
<1>2. ASSUME NEW c \in Calls, CallEnds(c)
      PROVE  BoardInv' /\ \A d \in Calls : EndKept(d)
  <2>1. UNCHANGED board
    BY <1>2 DEF CallEnds
  <2> QED BY <1>2, <2>1, EndKeeps, EndsStay
<1>3. ASSUME NEW c \in Calls, ToolsFinish(c)
      PROVE  BoardInv' /\ \A d \in Calls : EndKept(d)
  <2>1. /\ UNCHANGED <<board, wire>> /\ server' \in [Calls -> ServerSteps]
        /\ \A d \in Calls : server'[d] \in {"coming", "live"} => server[d] \in {"coming", "live"}
    BY <1>3 DEF BoardInv, BoardTypeOK, ServerSteps, ToolsFinish
  <2>2. BoardInv'
    BY <2>1 DEF BoardInv, BoardTypeOK, OneEndOf
  <2> QED BY <2>1, <2>2, EndsStay
<1>4. ASSUME NEW c \in Calls, ReceiveEvent(c)
      PROVE  BoardInv' /\ \A d \in Calls : EndKept(d)
  BY <1>4, EventKeeps
<1>5. CASE ConnectionLost
  <2>1. UNCHANGED board
    BY <1>5 DEF ConnectionLost
  <2> QED BY <1>5, <2>1, LossKeeps, EndsStay
<1>6. CASE Reconnected \/ ServePoll \/ PollFails \/ UNCHANGED boardVars
  <2>1. UNCHANGED <<server, wire, board>>
    BY <1>6 DEF Reconnected, ServePoll, PollFails, boardVars
  <2>2. BoardInv'
    BY <2>1 DEF BoardInv, BoardTypeOK, OneEndOf
  <2> QED BY <2>1, <2>2, EndsStay
<1>7. CASE Hydrate
  BY <1>7, HydrateKeeps
<1>8. CASE Prune
  BY <1>8, PruneKeeps
<1>9. CASE Tick
  BY <1>9, TickKeeps
<1> QED
  BY <1>1, <1>2, <1>3, <1>4, <1>5, <1>6, <1>7, <1>8, <1>9 DEF BoardNext

\* A poll that was served before a call's end, and an event that was broadcast
\* after it, neither withdraw the end of its row nor move it (applyEnded,
\* rowFromItem, rowFromSnapshot, hydrate); what they do to its status is not
\* promised.
THEOREM TheEndedStayEnded == BoardSpec => EndedRowStaysEnded
<1>1. BoardInv /\ [BoardNext]_boardVars => BoardInv'
  BY BoardSteps
<1>2. BoardInv /\ [BoardNext]_boardVars =>
        [\A c \in Calls : (board[c].on /\ board[c].ended /\ board'[c].on) =>
           board'[c].ended /\ board'[c].endedAge >= board[c].endedAge]_boardVars
  BY BoardSteps DEF EndKept
<1> QED BY BoardStarts, <1>1, <1>2, PTL DEF BoardSpec, EndedRowStaysEnded

=============================================================================
