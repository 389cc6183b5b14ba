-------------------------- MODULE ContactMatching --------------------------
(***************************************************************************)
(* Who is calling: findOrCreateContact (lib/telephony/contact-matcher.ts)  *)
(* run by the calls of one person at once, beside the supervisors who      *)
(* create, re-key and remove that person's contact on the Contacts page    *)
(* (routes/contacts/contacts.handlers.ts).                                 *)
(*                                                                         *)
(* The person's number has two spellings, the canonical one and the        *)
(* national one; a lookup matches both, the unique index compares the      *)
(* spelling.  A row re-keyed to another number is no longer this person's. *)
(* Every action is one statement: between two of them any other may run.   *)
(***************************************************************************)
EXTENDS Naturals, FiniteSets

CONSTANTS
  Callers,     \* the calls of the person that arrive
  ContactIds,  \* the ids of the contacts rows there can be
  Editors,     \* requests to POST /contacts
  MaxRemovals, \* bound: removals of a contact
  MaxRekeys,   \* bound: changes of a contact's number
  NoContact

ASSUME NoContactAssumption == NoContact \notin ContactIds

VARIABLES
  contact,     \* the table: [spelling, deleted]; "unused" before the insert
  caller,      \* findOrCreateContact: its step, and the row it looks at
  editor,      \* createHandler: its step, and the row it looks at
  removals, rekeys,
  removedSince,\* history: a contact was removed after the call last looked
  rekeyedSince \* history: a contact was re-keyed between the lost insert and its re-select

contactVars ==
  <<contact, caller, editor, removals, rekeys, removedSince, rekeyedSince>>

Spellings == {"canonical", "national"}

\* canonicalisePhone: how a row that a call creates is spelled.
Canonical == "canonical"

Unused == [spelling |-> "unused", deleted |-> FALSE]

OfThePerson(id) == contact[id].spelling \in Spellings
LiveRows == {id \in ContactIds : OfThePerson(id) /\ ~contact[id].deleted}
AllRows == {id \in ContactIds : OfThePerson(id)}

\* idx_contacts_tenant_phone, which deleted rows are in too.
Taken(s) == \E id \in ContactIds : contact[id].spelling = s

CallerSteps == {"look", "look_deleted", "insert", "look_again", "revive", "attached", "failed"}
EditorSteps == {"idle", "insert", "restore", "done"}

ContactInit ==
  /\ contact \in [ContactIds -> {Unused} \cup [spelling : Spellings, deleted : BOOLEAN]]
  /\ \A s \in Spellings : Cardinality({id \in ContactIds : contact[id].spelling = s}) <= 1
  /\ caller \in [Callers -> [at : {"look"}, row : {NoContact}, number : Spellings]]
  /\ editor \in [Editors -> [at : {"idle"}, row : {NoContact}, number : Spellings]]
  /\ removals = 0 /\ rekeys = 0
  /\ removedSince = [c \in Callers |-> FALSE]
  /\ rekeyedSince = [c \in Callers |-> FALSE]

CallerGoes(c, step, id) == caller' = [caller EXCEPT ![c].at = step, ![c].row = id]

\* The row a statement reads is as fresh as the statement.
Sees(c) == removedSince' = [removedSince EXCEPT ![c] = FALSE]

\* pickBestMatch: the spelling that was dialled wins.
BestMatches(c, ids) ==
  LET dialled == {id \in ids : contact[id].spelling = caller[c].number} IN
    IF dialled = {} THEN ids ELSE dialled

\* findContactByPhone: the live rows of either spelling.
FindContactByPhone(c) ==
  /\ caller[c].at = "look"
  /\ IF LiveRows = {} THEN CallerGoes(c, "look_deleted", NoContact)
     ELSE \E id \in BestMatches(c, LiveRows) : CallerGoes(c, "attached", id)
  /\ Sees(c)
  /\ UNCHANGED <<contact, editor, removals, rekeys, rekeyedSince>>

\* findAnyContactByPhone before the insert; whatever it finds is revived.
FindDeleted(c) ==
  /\ caller[c].at = "look_deleted"
  /\ IF AllRows = {} THEN CallerGoes(c, "insert", NoContact)
     ELSE \E id \in BestMatches(c, AllRows) : CallerGoes(c, "revive", id)
  /\ Sees(c)
  /\ UNCHANGED <<contact, editor, removals, rekeys, rekeyedSince>>

\* insertContact; the unique violation is an answer, not an error.
InsertContact(c) ==
  /\ caller[c].at = "insert"
  /\ \/ /\ Taken(Canonical)
        /\ CallerGoes(c, "look_again", NoContact)
        /\ UNCHANGED contact
     \/ \E id \in ContactIds :
          /\ ~Taken(Canonical)
          /\ contact[id] = Unused
          /\ contact' = [contact EXCEPT ![id] = [spelling |-> Canonical, deleted |-> FALSE]]
          /\ CallerGoes(c, "attached", id)
  /\ Sees(c)
  /\ UNCHANGED <<editor, removals, rekeys, rekeyedSince>>

\* Mutant of AfterTheRace: the winner is looked for among the live rows.
AfterTheRaceLiveOnly(c) ==
  IF LiveRows = {} THEN CallerGoes(c, "failed", NoContact)
  ELSE \E id \in BestMatches(c, LiveRows) : CallerGoes(c, "attached", id)

AfterTheRace(c) ==
  IF AllRows = {} THEN CallerGoes(c, "failed", NoContact)
  ELSE \E id \in BestMatches(c, AllRows) : CallerGoes(c, IF contact[id].deleted THEN "revive" ELSE "attached", id)

\* The re-select after 23505; nothing found is databaseError.
LookAgain(c) ==
  /\ caller[c].at = "look_again"
  /\ AfterTheRace(c)
  /\ Sees(c)
  /\ UNCHANGED <<contact, editor, removals, rekeys, rekeyedSince>>

\* Mutant of Revived: the deleted row is attached as it is.
LeftDeleted(id) == contact

Revived(id) == [contact EXCEPT ![id].deleted = FALSE]

\* reviveContact: the caller is on the phone right now.
ReviveContact(c) ==
  /\ caller[c].at = "revive"
  /\ contact' = Revived(caller[c].row)
  /\ CallerGoes(c, "attached", caller[c].row)
  /\ Sees(c)
  /\ UNCHANGED <<editor, removals, rekeys, rekeyedSince>>

EditorGoes(e, step, id) == editor' = [editor EXCEPT ![e].at = step, ![e].row = id]

\* createHandler: the duplicate check, on the exact spelling; a live row is 409.
CreateLooks(e) ==
  /\ editor[e].at = "idle"
  /\ LET same == {id \in ContactIds : contact[id].spelling = editor[e].number} IN
       \/ /\ same = {}
          /\ EditorGoes(e, "insert", NoContact)
       \/ \E id \in same :
            EditorGoes(e, IF contact[id].deleted THEN "restore" ELSE "done", id)
  /\ UNCHANGED <<contact, caller, removals, rekeys, removedSince, rekeyedSince>>

\* ... its insert, which the index may refuse: that request is a 500.
CreateInserts(e) ==
  /\ editor[e].at = "insert"
  /\ \/ /\ Taken(editor[e].number)
        /\ UNCHANGED contact
     \/ \E id \in ContactIds :
          /\ ~Taken(editor[e].number)
          /\ contact[id] = Unused
          /\ contact' =
               [contact EXCEPT ![id] = [spelling |-> editor[e].number, deleted |-> FALSE]]
  /\ EditorGoes(e, "done", NoContact)
  /\ UNCHANGED <<caller, removals, rekeys, removedSince, rekeyedSince>>

\* ... or its restore of a removed contact.
CreateRestores(e) ==
  /\ editor[e].at = "restore"
  /\ contact' = [contact EXCEPT ![editor[e].row].deleted = FALSE]
  /\ EditorGoes(e, "done", editor[e].row)
  /\ UNCHANGED <<caller, removals, rekeys, removedSince, rekeyedSince>>

\* removeHandler: a soft delete, so the row keeps its place in the index.
RemoveContact(id) ==
  /\ removals < MaxRemovals
  /\ id \in LiveRows
  /\ contact' = [contact EXCEPT ![id].deleted = TRUE]
  /\ removals' = removals + 1
  /\ removedSince' = [c \in Callers |-> TRUE]
  /\ UNCHANGED <<caller, editor, rekeys, rekeyedSince>>

\* updateHandler with another number: to the other spelling, or to the number
\* of somebody else.
RekeyContact(id, s) ==
  /\ rekeys < MaxRekeys
  /\ OfThePerson(id)
  /\ s \in Spellings => ~Taken(s)
  /\ contact' = [contact EXCEPT ![id].spelling = s]
  /\ rekeys' = rekeys + 1
  /\ rekeyedSince' = [c \in Callers |-> rekeyedSince[c] \/ caller[c].at = "look_again"]
  /\ UNCHANGED <<caller, editor, removals, removedSince>>

ContactNext ==
  \/ \E c \in Callers : \/ FindContactByPhone(c) \/ FindDeleted(c) \/ InsertContact(c)
                        \/ LookAgain(c) \/ ReviveContact(c)
  \/ \E e \in Editors : CreateLooks(e) \/ CreateInserts(e) \/ CreateRestores(e)
  \/ \E id \in ContactIds : \/ RemoveContact(id)
                      \/ \E s \in Spellings \cup {"somebody_else"} : RekeyContact(id, s)

ContactSpec == ContactInit /\ [][ContactNext]_contactVars

\* No call is turned away for want of a contact: the insert that lost the race
\* finds the row that won, removed or not, unless the winner was re-keyed
\* between the two statements.
CallerIsResolved ==
  \A c \in Callers : caller[c].at = "failed" => rekeyedSince[c]

\* A caller's contact is one the operators can see: a removed contact comes
\* back as its owner rings, and is out of sight only if somebody removed it
\* after the call had looked.
CallerIsVisible ==
  \A c \in Callers :
    caller[c].at = "attached" => \/ ~contact[caller[c].row].deleted
                                 \/ removedSince[c]
=============================================================================
