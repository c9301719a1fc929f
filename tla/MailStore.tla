----------------------------- MODULE MailStore -----------------------------
(***************************************************************************)
(* The mailbox of one station, guardian/message/store.py: bundles and an   *)
(* index on disk, a copy of the index in memory, and those who rely on it: *)
(* the operator, remote clients that repeat a request under its token, the *)
(* radio, and the server, which keeps a message until it is acknowledged   *)
(* (ardos_cz/service.py).                                                  *)
(*                                                                         *)
(* Every call holds the lock of the store, so a call is one step; but it   *)
(* may fail where it writes, and the program may die between two writes.   *)
(* A bundle and the index are each replaced atomically.  Left out: a call  *)
(* that fails before it has changed anything, and an index that cannot be  *)
(* read back.                                                              *)
(***************************************************************************)
EXTENDS Naturals

CONSTANTS
    Foreign,      \* ids of messages written at other stations
    Content,      \* what a bundle may hold, apart from its hop history
    Text,         \* what the messages written here hold
    Missing,      \* no bundle
    Token, NoToken,
    Folder,       \* folders in use, of outbox, inbox, transit, sent
    MaxCounter    \* bound: ids given out, far below the 20 bits of the counter

Local == 1..MaxCounter
Id == Local \cup Foreign

ASSUME ContentAssumption ==
    /\ Text \in Content /\ Missing \notin Content
    /\ NoToken \notin Token
    /\ {"outbox", "inbox"} \subseteq Folder
    /\ Folder \subseteq {"outbox", "inbox", "transit", "sent"}

ASSUME IdAssumption ==
    /\ MaxCounter \in Nat
    /\ Foreign \cap (0..MaxCounter) = {}

VARIABLES
    index,      \* _index: what the station lists
    counter,    \* _counter
    disk,       \* the index file
    file,       \* the bundles
    composing,  \* the id the compose window has taken and not yet added, or 0
    queueing,   \* the request queue_remote_text is at work on
    held        \* the server's copy of a message for this station

\* History: what others were told, and what the operator did.
VARIABLES
    kept,       \* ids of messages reported as stored and not deleted since
    withdrawn,  \* ids of messages the operator has deleted
    acked,      \* the bundle the server was told is stored
    answered,   \* the id a request was answered with, or 0
    taken,      \* ids given out
    dirty       \* some change could not be saved and is only in memory

store == <<index, counter, disk, file>>
callers == <<composing, queueing>>
history == <<kept, withdrawn, acked, answered, taken>>
vars == <<store, callers, held, history, dirty>>

NoEntry == [folder |-> "none", key |-> NoToken, server |-> FALSE]

Entry == {NoEntry} \cup
    [folder : Folder, key : Token \cup {NoToken}, server : BOOLEAN]

Listed(i) == index[i] # NoEntry

Empty == [i \in Id |-> NoEntry]

NoRequest == [id |-> 0, key |-> NoToken]

\* No call holds the lock between two of its writes.
Free == queueing = NoRequest

----------------------------------------------------------------------------
Init ==
    /\ index = Empty /\ counter = 0
    /\ disk = [index |-> Empty, counter |-> 0]
    /\ file = [i \in Id |-> Missing]
    /\ composing = 0 /\ queueing = NoRequest
    /\ held \in [Foreign -> Content \cup {Missing}]
    /\ kept = {} /\ withdrawn = {} /\ taken = {}
    /\ acked = [i \in Foreign |-> Missing]
    /\ answered = [t \in Token |-> 0]
    /\ dirty = FALSE

----------------------------------------------------------------------------
\* What a call does to memory and disk.

\* _save_index
Saved(idx, count) ==
    /\ index' = idx /\ counter' = count
    /\ disk' = [index |-> idx, counter |-> count]
    /\ dirty' = FALSE

\* The index could not be saved and the call does not take its change back.
Unsaved(idx, count) ==
    /\ index' = idx /\ counter' = count
    /\ dirty' = (dirty \/ idx # index)
    /\ UNCHANGED disk

\* Mutant: the entry that could not be saved stays.
EntryStays(i, e) ==
    /\ index' = [index EXCEPT ![i] = e]
    /\ UNCHANGED <<counter, disk, dirty>>

\* The index could not be saved and the entry is put back as it was.
RolledBack(i, e) == UNCHANGED <<index, counter, disk, dirty>>

\* load, of an index that can be read: it is replaced atomically.
Load ==
    /\ index' = disk.index /\ counter' = disk.counter /\ dirty' = FALSE
    /\ composing' = 0 /\ queueing' = NoRequest
    /\ UNCHANGED disk

\* Messages are published bundle first: add, import_server.
Published(i, e, c) ==
    /\ file' = [file EXCEPT ![i] = c]
    /\ Saved([index EXCEPT ![i] = e], counter)
    /\ kept' = kept \cup {i} /\ withdrawn' = withdrawn \ {i}

\* The bundle is published, or is not, and the call fails.
Torn(i, e, c) ==
    /\ file' \in {file, [file EXCEPT ![i] = c]}
    /\ RolledBack(i, e)
    /\ UNCHANGED <<held, history>>

\* The bundle is published and the program dies.
Dies(i, c) ==
    /\ file' = [file EXCEPT ![i] = c]
    /\ Load
    /\ UNCHANGED <<held, history>>

\* Mutants: metadata of an earlier copy is forgotten; or taken over unchanged.
OldMeta(i, folder) == index[i]

FreshMeta(i, folder) == [folder |-> folder, key |-> NoToken, server |-> FALSE]

\* _meta keeps what the index knows of the message already.
Meta(i, folder) == [index[i] EXCEPT !.folder = folder]

----------------------------------------------------------------------------
\* Messages written here.

\* Mutant: the counter is not saved before the id is used.
MintsUnsaved(k) ==
    /\ k = counter + 1 /\ k \in Local
    /\ Unsaved(index, k)
    /\ taken' = taken \cup {k}

\* next_id returns only when the counter is saved.
Mints(k) ==
    /\ k = counter + 1 /\ k \in Local
    /\ Saved(index, k)
    /\ taken' = taken \cup {k}

MintFails ==
    /\ counter + 1 \in Local
    /\ Unsaved(index, counter + 1)
    /\ UNCHANGED taken

\* The compose window takes an id ...
Compose ==
    /\ Free /\ composing = 0
    /\ \/ \E k \in Local : Mints(k) /\ composing' = k
       \/ MintFails /\ UNCHANGED composing
    /\ UNCHANGED <<file, queueing, held, kept, withdrawn, acked, answered>>

\* ... and adds the message.
Add ==
    /\ Free /\ composing # 0
    /\ LET e == Meta(composing, "outbox") IN
       \/ /\ Published(composing, e, Text)
          /\ composing' = 0
          /\ UNCHANGED <<queueing, held, acked, answered, taken>>
       \/ /\ Torn(composing, e, Text)
          /\ composing' = 0 /\ UNCHANGED queueing
       \/ Dies(composing, Text)

\* queue_remote_text: a known token is answered with the message it made.
Repeat(t) ==
    /\ Free
    /\ \E i \in Id :
        /\ Listed(i) /\ index[i].key = t
        /\ answered' = [answered EXCEPT ![t] = i]
        /\ kept' = kept \cup ({i} \ withdrawn)
    /\ UNCHANGED <<store, callers, held, withdrawn, acked, taken, dirty>>

\* A new token takes an id ...
Request(t) ==
    /\ Free /\ \A i \in Id : Listed(i) => index[i].key # t
    /\ \/ \E k \in Local : Mints(k) /\ queueing' = [id |-> k, key |-> t]
       \/ MintFails /\ UNCHANGED queueing
    /\ UNCHANGED <<file, composing, held, kept, withdrawn, acked, answered>>

\* ... and its message is stored together with the token.
Queue ==
    /\ ~Free
    /\ LET i == queueing.id
           e == [Meta(i, "outbox") EXCEPT !.key = queueing.key] IN
       \/ /\ Published(i, e, Text)
          /\ answered' = [answered EXCEPT ![queueing.key] = i]
          /\ queueing' = NoRequest
          /\ UNCHANGED <<composing, held, acked, taken>>
       \/ /\ file' \in {file, [file EXCEPT ![i] = Text]}
          /\ Unsaved([index EXCEPT ![i] = NoEntry], counter)
          /\ queueing' = NoRequest
          /\ UNCHANGED <<composing, held, history>>
       \/ Dies(i, Text)

----------------------------------------------------------------------------
\* Messages from elsewhere.

\* Mutant: nobody looks where the copy came from.
FromAnywhere(i) == FALSE

\* The server has answered for the copy that is here.
FromServer(i) == index[i].server

\* A message the server has answered for is not replaced by another one.
SameMessage(i, c) == FromServer(i) => file[i] = c

Arrived(i) ==
    /\ kept' = kept \cup {i} /\ withdrawn' = withdrawn \ {i}
    /\ UNCHANGED <<store, callers, held, acked, answered, taken, dirty>>

\* store_incoming, for a message from elsewhere or one of our own that comes back;
\* whether it is for this station or to be passed on is left open.
StoreIncoming(i, c) ==
    /\ Free
    /\ i \in Foreign \/ (i \in kept /\ c = Text)
    /\ SameMessage(i, c)
    /\ IF FromServer(i)
         THEN Arrived(i)
         ELSE \E folder \in Folder \cap {"inbox", "transit"} :
                LET e == Meta(i, folder) IN
                \/ /\ Published(i, e, c)
                   /\ UNCHANGED <<callers, held, acked, answered, taken>>
                \/ Torn(i, e, c) /\ UNCHANGED callers
                \/ Dies(i, c)

\* The server hears of the import, or the answer to it is lost.
Acknowledge(i) ==
    /\ acked' = [acked EXCEPT ![i] = held[i]]
    /\ held' \in {held, [held EXCEPT ![i] = Missing]}
    /\ UNCHANGED <<callers, answered, taken>>

\* import_server: a copy that is here already only notes where it came from.
ImportKnown(i) ==
    /\ Free /\ held[i] # Missing /\ Listed(i)
    /\ file[i] = held[i]
    /\ Saved([index EXCEPT ![i].server = TRUE], counter)
    /\ kept' = kept \cup {i} /\ withdrawn' = withdrawn \ {i}
    /\ Acknowledge(i)
    /\ UNCHANGED file

Imported == [folder |-> "inbox", key |-> NoToken, server |-> TRUE]

ImportNew(i) ==
    /\ Free /\ held[i] # Missing /\ ~Listed(i)
    /\ Published(i, Imported, held[i])
    /\ Acknowledge(i)

ImportFails(i) ==
    /\ Free /\ held[i] # Missing /\ ~Listed(i)
    /\ \/ Torn(i, Imported, held[i]) /\ UNCHANGED callers
       \/ Dies(i, held[i])

Import(i) == ImportKnown(i) \/ ImportNew(i)

----------------------------------------------------------------------------
\* What happens to messages later.

\* set_status, mark_sent, mark_read
SetStatus(i) ==
    /\ Free /\ Listed(i)
    /\ \E folder \in Folder :
        LET idx == [index EXCEPT ![i].folder = folder] IN
        Saved(idx, counter) \/ Unsaved(idx, counter)
    /\ UNCHANGED <<file, callers, held, history>>

\* server_path, for a message that is offered to the server.
ServerPath(i) ==
    /\ Free /\ Listed(i) /\ index[i].folder # "inbox"
    /\ Saved([index EXCEPT ![i].server = TRUE], counter)
    /\ UNCHANGED <<file, callers, held, history>>

Withdraw(gone) ==
    /\ kept' = kept \ gone /\ withdrawn' = withdrawn \cup gone
    /\ acked' = [i \in Foreign |-> IF i \in gone THEN Missing ELSE acked[i]]
    /\ UNCHANGED <<held, answered, taken>>

\* delete: the bundle goes first, then the entry.
Delete(i) ==
    /\ Free /\ Listed(i)
    /\ file' = [file EXCEPT ![i] = Missing]
    /\ \/ Saved([index EXCEPT ![i] = NoEntry], counter) /\ UNCHANGED callers
       \/ RolledBack(i, NoEntry) /\ UNCHANGED callers
       \/ Load
    /\ Withdraw({i})

\* clear: a bundle that cannot be deleted stays, its entry goes all the same.
Clear ==
    /\ Free
    /\ \E locked \in SUBSET Id :
        file' = [i \in Id |-> IF i \in locked THEN file[i] ELSE Missing]
    /\ \/ Saved(Empty, counter) /\ UNCHANGED callers
       \/ Unsaved(Empty, counter) /\ UNCHANGED callers
       \/ Load
    /\ Withdraw(Id)

Restart == Load /\ UNCHANGED <<file, held, history>>

Next ==
    \/ Compose \/ Add \/ Queue \/ Clear \/ Restart
    \/ \E t \in Token : Repeat(t) \/ Request(t)
    \/ \E i \in Id, c \in Content : StoreIncoming(i, c)
    \/ \E i \in Foreign : Import(i) \/ ImportFails(i)
    \/ \E i \in Id : SetStatus(i) \/ ServerPath(i) \/ Delete(i)

Spec == Init /\ [][Next]_vars

\* The station goes on asking the server, and an import that can succeed time
\* and again does so, acknowledgement included.
FairSpec ==
    /\ Spec
    /\ \A i \in Foreign : SF_vars(Import(i) /\ held'[i] = Missing)

----------------------------------------------------------------------------
TypeOK ==
    /\ index \in [Id -> Entry] /\ counter \in 0..MaxCounter
    /\ disk \in [index : [Id -> Entry], counter : 0..MaxCounter]
    /\ file \in [Id -> Content \cup {Missing}]
    /\ composing \in {0} \cup Local
    /\ queueing = NoRequest \/ queueing \in [id : Local, key : Token]
    /\ held \in [Foreign -> Content \cup {Missing}]
    /\ kept \subseteq Id /\ withdrawn \subseteq Id /\ taken \subseteq Local
    /\ acked \in [Foreign -> Content \cup {Missing}]
    /\ answered \in [Token -> {0} \cup Local]
    /\ dirty \in BOOLEAN

\* A message that was reported as stored survives every crash and every failed
\* call until the operator deletes it: it is on disk, listed and with its bundle.
PromisesKept ==
    \A i \in kept : disk.index[i] # NoEntry /\ file[i] # Missing

\* The bundle the server was told of is not overwritten, by another message of
\* the same id from the radio for one.
AckedIsSafe ==
    \A i \in Foreign : acked[i] # Missing =>
        file[i] = acked[i] /\ disk.index[i].server

\* What the station lists is what it would list after a restart, except for
\* changes of status and a clearing that could not be saved.
FailuresLeaveNoTrace == dirty \/ index = disk.index

\* A request is queued once: its token goes on being answered with the same
\* message while that is kept, across failures and restarts.
RequestsQueuedOnce ==
    [][\A t \in Token : answered'[t] # answered[t] => answered[t] \notin kept]_vars

\* No id is given out twice.
IdsAreNew ==
    [][/\ composing' \notin {0, composing} => composing' \notin taken
       /\ queueing' # queueing => queueing'.id \notin taken]_vars

\* An import that failed, or was not acknowledged, is retried until it succeeds
\* (tests/test_ardos_cz.py:221).
ImportIsRetried == \A i \in Foreign : held[i] # Missing ~> held[i] = Missing
=============================================================================
