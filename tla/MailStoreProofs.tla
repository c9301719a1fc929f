-------------------------- MODULE MailStoreProofs --------------------------
(***************************************************************************)
(* What the mailbox promises for any messages, tokens and number of ids.   *)
(* The index in memory may list less than the one on disk, after a failed  *)
(* clearing, but what it lists is listed there too, with the same token    *)
(* and the same word about the server.  So the invariant speaks of the     *)
(* disk, and a restart changes nothing it says.                            *)
(* Of the dial of the radio, the other part SharedState has, the end of    *)
(* this module says that whoever moved it alone knows the way back.        *)
(***************************************************************************)
EXTENDS SharedState, TLAPS

OnDisk(i) == disk.index[i] # NoEntry

\* What memory lists the disk lists.
Matches == \A i \in Id : Listed(i) =>
    /\ OnDisk(i)
    /\ disk.index[i].key = index[i].key
    /\ disk.index[i].server = index[i].server

Bundles == \A i \in Id : OnDisk(i) /\ i \notin withdrawn => file[i] # Missing

KeptListed == \A i \in kept : Listed(i) /\ i \notin withdrawn

AckedKept == \A i \in Foreign : acked[i] # Missing =>
    i \in kept /\ file[i] = acked[i] /\ index[i].server

\* All ids given out are below the counter on disk.
Range ==
    /\ disk.counter <= counter
    /\ \A i \in Local : Listed(i) \/ OnDisk(i) => i <= disk.counter
    /\ \A t \in Token : answered[t] <= disk.counter
    /\ \A k \in taken : k <= disk.counter

\* An id that is taken and not used yet is not known elsewhere.
Unused(x) ==
    /\ x <= disk.counter
    /\ ~Listed(x) /\ ~OnDisk(x)
    /\ \A t \in Token : answered[t] # x

Pending ==
    /\ composing # 0 => Unused(composing) /\ composing # queueing.id
    /\ ~Free => Unused(queueing.id)

\* A token is at one message.
Keys ==
    /\ \A i \in Id : disk.index[i].key # NoToken => i \in Local
    /\ \A i, j \in Id :
        disk.index[i].key = disk.index[j].key /\ disk.index[i].key # NoToken => i = j
    /\ \A t \in Token, i \in Id : OnDisk(i) /\ answered[t] = i => disk.index[i].key = t
    /\ ~Free => \A i \in Id : disk.index[i].key # queueing.key

IInv ==
    /\ TypeOK /\ Matches /\ Bundles /\ KeptListed /\ AckedKept
    /\ Range /\ Pending /\ Keys /\ FailuresLeaveNoTrace

----------------------------------------------------------------------------
(* Entries of the index. *)

LEMMA EntryShape ==
    ASSUME NEW e
    PROVE  e \in Entry /\ e # NoEntry
             <=> e \in [folder : Folder, key : Token \cup {NoToken}, server : BOOLEAN]
<1>1. ASSUME e \in [folder : Folder, key : Token \cup {NoToken}, server : BOOLEAN]
      PROVE  e # NoEntry
  <2>1. e.folder \in Folder
    BY <1>1
  <2>2. NoEntry.folder = "none"
    BY DEF NoEntry
  <2>3. "none" \notin Folder
    BY ContentAssumption
  <2> QED BY <2>1, <2>2, <2>3
<1> QED BY <1>1 DEF Entry

LEMMA EntryFacts ==
    /\ NoEntry \in Entry /\ NoEntry.key = NoToken /\ NoEntry.server = FALSE
    /\ \A e \in Entry : e.key \in Token \cup {NoToken} /\ e.server \in BOOLEAN
    /\ Imported \in Entry /\ Imported # NoEntry
    /\ Imported.key = NoToken /\ Imported.server = TRUE
<1>1. NoEntry \in Entry /\ NoEntry.key = NoToken /\ NoEntry.server = FALSE
  BY DEF Entry, NoEntry
<1>2. \A e \in Entry : e.key \in Token \cup {NoToken} /\ e.server \in BOOLEAN
  <2>1. TAKE e \in Entry
  <2>2. CASE e = NoEntry
    BY <2>2, <1>1
  <2>3. CASE e # NoEntry
    <3>1. e \in [folder : Folder, key : Token \cup {NoToken}, server : BOOLEAN]
      BY <2>3, EntryShape
    <3> QED BY <3>1
  <2> QED BY <2>2, <2>3
<1>3. Imported \in [folder : Folder, key : Token \cup {NoToken}, server : BOOLEAN]
  BY ContentAssumption DEF Imported
<1>4. Imported.key = NoToken /\ Imported.server = TRUE
  BY DEF Imported
<1> QED BY <1>1, <1>2, <1>3, <1>4, EntryShape

LEMMA MetaFacts ==
    ASSUME NEW i \in Id, NEW f \in Folder, index \in [Id -> Entry]
    PROVE  /\ Meta(i, f) \in Entry /\ Meta(i, f) # NoEntry
           /\ Meta(i, f).key = index[i].key /\ Meta(i, f).server = index[i].server
<1>1. CASE index[i] = NoEntry
  <2>1. Meta(i, f) = [folder |-> f, key |-> NoToken, server |-> FALSE]
    <3>1. Meta(i, f) = [NoEntry EXCEPT !.folder = f]
      BY <1>1, Zenon DEF Meta
    <3> QED BY <3>1 DEF NoEntry
  <2>2. Meta(i, f) \in [folder : Folder, key : Token \cup {NoToken}, server : BOOLEAN]
    BY <2>1
  <2>3. Meta(i, f).key = NoToken /\ Meta(i, f).server = FALSE
    BY <2>1
  <2> QED BY <1>1, <2>2, <2>3, EntryShape, EntryFacts
<1>2. CASE index[i] # NoEntry
  <2>1. index[i] \in [folder : Folder, key : Token \cup {NoToken}, server : BOOLEAN]
    BY <1>2, EntryShape
  <2>2. /\ Meta(i, f) \in [folder : Folder, key : Token \cup {NoToken}, server : BOOLEAN]
        /\ Meta(i, f).key = index[i].key /\ Meta(i, f).server = index[i].server
    BY <2>1 DEF Meta
  <2> QED BY <2>2, EntryShape
<1> QED BY <1>1, <1>2

LEMMA TokenFacts ==
    ASSUME NEW e \in Entry, e # NoEntry, NEW t \in Token
    PROVE  /\ [e EXCEPT !.key = t] \in Entry /\ [e EXCEPT !.key = t] # NoEntry
           /\ [e EXCEPT !.key = t].key = t /\ [e EXCEPT !.key = t].server = e.server
<1>1. e \in [folder : Folder, key : Token \cup {NoToken}, server : BOOLEAN]
  BY EntryShape
<1>2. [e EXCEPT !.key = t] \in [folder : Folder, key : Token \cup {NoToken}, server : BOOLEAN]
  BY <1>1
<1> QED BY <1>1, <1>2, EntryShape

LEMMA ServerFacts ==
    ASSUME NEW e \in Entry, e # NoEntry
    PROVE  /\ [e EXCEPT !.server = TRUE] \in Entry /\ [e EXCEPT !.server = TRUE] # NoEntry
           /\ [e EXCEPT !.server = TRUE].key = e.key
           /\ [e EXCEPT !.server = TRUE].server = TRUE
<1>1. e \in [folder : Folder, key : Token \cup {NoToken}, server : BOOLEAN]
  BY EntryShape
<1>2. [e EXCEPT !.server = TRUE] \in
        [folder : Folder, key : Token \cup {NoToken}, server : BOOLEAN]
  BY <1>1
<1> QED BY <1>1, <1>2, EntryShape

LEMMA IdFacts ==
    /\ Local \subseteq Nat /\ 0 \notin Local
    /\ Local \subseteq Id /\ Foreign \subseteq Id
    /\ \A k \in Nat : k + 1 \in Local <=> k + 1 <= MaxCounter
    /\ Foreign \cap Local = {} /\ 0 \notin Foreign /\ 0 \notin Id
    /\ \A i \in Local : i \in 0..MaxCounter
BY IdAssumption, SMT DEF Local, Id

LEMMA AnsweredFacts ==
    ASSUME IInv, NEW t \in Token
    PROVE  answered[t] \in Nat /\ answered[t] <= disk.counter
<1>1. answered[t] \in {0} \cup Local
  BY DEF IInv, TypeOK
<1>2. {0} \cup Local \subseteq Nat
  BY IdFacts
<1>3. answered[t] \in Nat
  BY <1>1, <1>2
<1> QED BY <1>3 DEF IInv, Range

----------------------------------------------------------------------------
(* What the kinds of steps have in common. *)

\* Bundles are written, but not over one the server was told of.
MoreBundles ==
    /\ file' \in [Id -> Content \cup {Missing}]
    /\ \A i \in Id : file[i] # Missing => file'[i] # Missing
    /\ \A i \in Foreign : acked[i] # Missing => file'[i] = file[i]

LEMMA OneMoreBundle ==
    ASSUME IInv, NEW i \in Id, NEW c \in Content,
           i \in Foreign => acked[i] = Missing,
           file' \in {file, [file EXCEPT ![i] = c]}
    PROVE  MoreBundles
<1>1. c # Missing /\ c \in Content \cup {Missing}
  BY ContentAssumption
<1>2. file \in [Id -> Content \cup {Missing}] /\ Foreign \subseteq Id
  BY DEF IInv, TypeOK, Id
<1> QED BY <1>1, <1>2 DEF MoreBundles

\* A restart forgets what was not saved and who was waiting.
LEMMA LoadStep ==
    ASSUME IInv, Load, MoreBundles, UNCHANGED <<held, history>>
    PROVE  IInv'
<1> USE DEF Load, history
<1>1. TypeOK'
  BY EntryFacts DEF IInv, TypeOK, MoreBundles
<1>2. Matches'
  BY DEF Matches, Listed, OnDisk
<1>3. Bundles'
  BY DEF IInv, Bundles, OnDisk, MoreBundles
<1>4. KeptListed'
  BY DEF IInv, TypeOK, KeptListed, Matches, Listed, OnDisk
<1>5. AckedKept'
  <2> SUFFICES ASSUME NEW i \in Foreign, acked[i] # Missing
               PROVE  i \in kept /\ file'[i] = acked[i] /\ disk.index[i].server
    BY DEF AckedKept
  <2>1. i \in kept /\ file[i] = acked[i] /\ index[i].server /\ i \in Id
    BY DEF IInv, AckedKept, Id
  <2>2. disk.index[i].server = index[i].server
    BY <2>1 DEF IInv, KeptListed, Matches
  <2> QED BY <2>1, <2>2 DEF MoreBundles
<1>6. Range'
  BY IdAssumption DEF IInv, TypeOK, Range, Listed, OnDisk
<1>7. Pending'
  BY DEF Pending, Free
<1>8. Keys'
  BY DEF IInv, Keys, OnDisk, Free
<1>9. FailuresLeaveNoTrace'
  BY DEF FailuresLeaveNoTrace
<1> QED BY <1>1, <1>2, <1>3, <1>4, <1>5, <1>6, <1>7, <1>8, <1>9 DEF IInv

\* A call fails after it has written its bundle, and gives up its id.
LEMMA TornStep ==
    ASSUME IInv, MoreBundles,
           UNCHANGED <<index, counter, disk, dirty, queueing, held, history>>,
           composing' \in {0, composing}
    PROVE  IInv'
<1> USE DEF history
<1>1. TypeOK'
  BY DEF IInv, TypeOK, MoreBundles
<1>2. Matches'
  BY DEF IInv, Matches, Listed, OnDisk
<1>3. Bundles'
  BY DEF IInv, Bundles, OnDisk, MoreBundles
<1>4. KeptListed'
  BY DEF IInv, KeptListed, Listed
<1>5. AckedKept'
  BY DEF IInv, AckedKept, MoreBundles
<1>6. Range'
  BY DEF IInv, Range, Listed, OnDisk
<1>7. Pending'
  BY DEF IInv, Pending, Unused, Listed, OnDisk, Free
<1>8. Keys'
  BY DEF IInv, Keys, OnDisk, Free
<1>9. FailuresLeaveNoTrace'
  BY DEF IInv, FailuresLeaveNoTrace
<1> QED BY <1>1, <1>2, <1>3, <1>4, <1>5, <1>6, <1>7, <1>8, <1>9 DEF IInv

\* What holds after a message was published, whoever did it.
LEMMA PublishedStep ==
    ASSUME IInv, NEW i \in Id, NEW e \in Entry, e # NoEntry, NEW c \in Content,
           Published(i, e, c)
    PROVE  /\ index' = [index EXCEPT ![i] = e] /\ index' \in [Id -> Entry]
           /\ disk' = [index |-> index', counter |-> counter] /\ counter' = counter
           /\ disk'.index = index' /\ disk'.counter = counter
           /\ file' = [file EXCEPT ![i] = c] /\ file' \in [Id -> Content \cup {Missing}]
           /\ kept' = kept \cup {i} /\ kept' \subseteq Id
           /\ withdrawn' = withdrawn \ {i} /\ withdrawn' \subseteq Id
           /\ dirty' = FALSE
           /\ Matches' /\ Bundles' /\ KeptListed' /\ FailuresLeaveNoTrace'
<1> USE DEF Published, Saved
<1>1. /\ index \in [Id -> Entry] /\ file \in [Id -> Content \cup {Missing}]
      /\ kept \subseteq Id /\ withdrawn \subseteq Id
  BY DEF IInv, TypeOK
<1>2. index' = [index EXCEPT ![i] = e] /\ index' \in [Id -> Entry]
  BY <1>1
<1>3. /\ disk' = [index |-> index', counter |-> counter] /\ counter' = counter
      /\ disk'.index = index' /\ disk'.counter = counter
  OBVIOUS
<1>4. file' = [file EXCEPT ![i] = c] /\ file' \in [Id -> Content \cup {Missing}]
  BY <1>1
<1>5. Matches'
  BY <1>3 DEF Matches, Listed, OnDisk
<1>6. Bundles'
  <2> SUFFICES ASSUME NEW j \in Id, index'[j] # NoEntry, j \notin withdrawn'
               PROVE  file'[j] # Missing
    BY <1>3 DEF Bundles, OnDisk
  <2>1. CASE j = i
    BY <2>1, <1>1, <1>4, ContentAssumption
  <2>2. CASE j # i
    <3>1. Listed(j) /\ j \notin withdrawn
      BY <2>2, <1>1, <1>2 DEF Listed
    <3>2. file[j] # Missing
      BY <3>1 DEF IInv, Matches, Bundles
    <3> QED BY <2>2, <3>2, <1>1, <1>4
  <2> QED BY <2>1, <2>2
<1>7. KeptListed'
  BY <1>1, <1>2 DEF IInv, KeptListed, Listed
<1> QED BY <1>1, <1>2, <1>3, <1>4, <1>5, <1>6, <1>7 DEF FailuresLeaveNoTrace

----------------------------------------------------------------------------
(* One lemma per action. *)

LEMMA InitStep == Init => IInv
<1> SUFFICES ASSUME Init PROVE IInv
  OBVIOUS
<1> USE DEF Init
<1>1. index = Empty /\ disk.index = Empty /\ disk.counter = 0
  OBVIOUS
<1>2. \A i \in Id : index[i] = NoEntry /\ disk.index[i] = NoEntry
  BY <1>1 DEF Empty
<1>3. Free
  BY DEF Free
<1>4. TypeOK
  <2>1. Empty \in [Id -> Entry]
    BY EntryFacts DEF Empty
  <2>2. /\ index \in [Id -> Entry] /\ counter \in 0..MaxCounter
        /\ disk \in [index : [Id -> Entry], counter : 0..MaxCounter]
    BY <2>1, IdAssumption
  <2>3. /\ file \in [Id -> Content \cup {Missing}] /\ composing \in {0} \cup Local
        /\ acked \in [Foreign -> Content \cup {Missing}]
        /\ answered \in [Token -> {0} \cup Local]
    OBVIOUS
  <2> QED BY <2>2, <2>3 DEF TypeOK
<1>5. Matches /\ Bundles /\ KeptListed /\ AckedKept
  BY <1>2 DEF Matches, Bundles, KeptListed, AckedKept, Listed, OnDisk
<1>6. Range /\ Pending
  BY <1>1, <1>2, <1>3, IdFacts DEF Range, Pending, Listed, OnDisk
<1>7. Keys
  BY <1>2, <1>3, EntryFacts DEF Keys, OnDisk
<1> QED BY <1>1, <1>4, <1>5, <1>6, <1>7 DEF IInv, FailuresLeaveNoTrace

\* An id that was taken and saved.
LEMMA MintsStep ==
    ASSUME IInv, Free, NEW k \in Local, Mints(k),
           UNCHANGED <<file, held, kept, withdrawn, acked, answered>>
    PROVE  /\ disk'.index = index' /\ index' = index /\ disk'.counter = k /\ k = counter + 1
           /\ Matches' /\ Bundles' /\ KeptListed' /\ AckedKept' /\ Range'
           /\ FailuresLeaveNoTrace' /\ Unused(k)' /\ k # composing
           /\ index' \in [Id -> Entry] /\ counter' \in 0..MaxCounter
           /\ disk' \in [index : [Id -> Entry], counter : 0..MaxCounter]
           /\ taken' \subseteq Local /\ dirty' \in BOOLEAN
           /\ k \notin taken
<1> USE DEF Mints, Saved
<1>1. /\ disk'.index = index' /\ index' = index /\ disk'.counter = k
      /\ k = counter + 1 /\ counter' = k
  OBVIOUS
<1>2. /\ index \in [Id -> Entry] /\ counter \in Nat /\ k \in 0..MaxCounter
      /\ disk.counter \in Nat /\ taken \subseteq Local /\ k \in Id
      /\ answered \in [Token -> {0} \cup Local] /\ composing \in {0} \cup Local
      /\ Local \subseteq Nat /\ k # 0
  BY IdFacts DEF IInv, TypeOK, Id
<1>3. disk.counter < k
  BY <1>1, <1>2 DEF IInv, Range
<1>4. Matches'
  BY <1>1 DEF Matches, Listed, OnDisk
<1>5. Bundles'
  BY <1>1 DEF IInv, Bundles, Matches, Listed, OnDisk
<1>6. KeptListed' /\ AckedKept'
  BY <1>1 DEF IInv, KeptListed, AckedKept, Listed
<1>7. \A i \in Local : Listed(i) => i < k
  BY <1>2, <1>3 DEF IInv, Range
<1>8. \A t \in Token : answered[t] \in Nat /\ answered[t] < k
  <2>1. TAKE t \in Token
  <2>2. answered[t] \in Nat /\ answered[t] <= disk.counter
    BY AnsweredFacts
  <2>3. k \in Nat
    BY <1>2
  <2> QED BY <1>2, <1>3, <2>2, <2>3
<1>9. \A i \in taken : i < k
  BY <1>2, <1>3 DEF IInv, Range
<1>10. Range'
  <2>1. /\ disk'.counter <= counter'
        /\ \A i \in Local : Listed(i)' \/ OnDisk(i)' => i <= disk'.counter
    BY <1>1, <1>2, <1>7 DEF Listed, OnDisk
  <2>2. \A t \in Token : answered'[t] <= disk'.counter
    BY <1>1, <1>2, <1>8
  <2>3. \A i \in taken' : i <= disk'.counter
    BY <1>1, <1>2, <1>9
  <2> QED BY <2>1, <2>2, <2>3 DEF Range
<1>11. Unused(k)'
  BY <1>1, <1>2, <1>7, <1>8 DEF Unused, Listed, OnDisk
<1>12. k # composing
  BY <1>2, <1>3 DEF IInv, Pending, Unused
<1>13. disk' \in [index : [Id -> Entry], counter : 0..MaxCounter]
  BY <1>1, <1>2
<1>14. taken' \subseteq Local /\ k \notin taken /\ counter' \in 0..MaxCounter
  BY <1>1, <1>2, <1>9
<1>15. dirty' = FALSE /\ FailuresLeaveNoTrace'
  BY <1>1 DEF FailuresLeaveNoTrace
<1> QED BY <1>1, <1>2, <1>4, <1>5, <1>6, <1>10, <1>11, <1>12, <1>13, <1>14, <1>15

LEMMA MintFailsStep ==
    ASSUME IInv, MintFails,
           UNCHANGED <<file, composing, queueing, held, kept, withdrawn, acked, answered>>
    PROVE  IInv'
<1> USE DEF MintFails, Unsaved
<1>1. counter' \in 0..MaxCounter /\ counter' = counter + 1
  BY IdFacts DEF IInv, TypeOK
<1>2. TypeOK'
  BY <1>1 DEF IInv, TypeOK
<1>3. Matches' /\ Bundles' /\ KeptListed' /\ AckedKept'
  BY DEF IInv, Matches, Bundles, KeptListed, AckedKept, Listed, OnDisk
<1>4. Range'
  BY <1>1, IdAssumption DEF IInv, TypeOK, Range, Listed, OnDisk
<1>5. Pending'
  BY DEF IInv, Pending, Unused, Listed, OnDisk, Free
<1>6. Keys'
  BY DEF IInv, Keys, OnDisk, Free
<1>7. FailuresLeaveNoTrace'
  BY DEF IInv, FailuresLeaveNoTrace
<1> QED BY <1>2, <1>3, <1>4, <1>5, <1>6, <1>7 DEF IInv

\* What memory lists is on disk, so what is on disk after a save has one token too.
LEMMA ListedKeys ==
    ASSUME IInv
    PROVE  /\ \A i \in Id : index[i].key # NoToken => Listed(i) /\ i \in Local
           /\ \A i, j \in Id : index[i].key = index[j].key /\ index[i].key # NoToken => i = j
           /\ \A t \in Token, i \in Id : Listed(i) /\ answered[t] = i => index[i].key = t
           /\ ~Free => \A i \in Id : index[i].key # queueing.key
<1>1. \A i \in Id : index[i].key # NoToken => Listed(i) /\ disk.index[i].key = index[i].key
  BY EntryFacts DEF IInv, Matches, Listed
<1>2. ~Free => queueing.key # NoToken
  BY ContentAssumption DEF IInv, TypeOK, Free
<1> QED BY <1>1, <1>2 DEF IInv, Keys, Matches

LEMMA ComposeStep == IInv /\ Compose => IInv'
<1> SUFFICES ASSUME IInv, Compose PROVE IInv'
  OBVIOUS
<1>1. CASE MintFails /\ UNCHANGED composing
  BY <1>1, MintFailsStep DEF Compose
<1>2. CASE \E k \in Local : Mints(k) /\ composing' = k
  <2>1. PICK k \in Local : Mints(k) /\ composing' = k
    BY <1>2
  <2>2. Free /\ UNCHANGED <<file, queueing, held, kept, withdrawn, acked, answered>>
    BY DEF Compose
  <2>3. Free'
    BY <2>2 DEF Free
  <2>4. TypeOK'
    BY <2>1, <2>2, MintsStep DEF IInv, TypeOK
  <2>5. Pending'
    <3>1. queueing'.id = 0 /\ k # 0
      BY <2>3, IdFacts DEF Free, NoRequest
    <3>2. Unused(k)'
      BY <2>1, <2>2, MintsStep
    <3> QED BY <2>1, <2>3, <3>1, <3>2 DEF Pending, Unused, Listed, OnDisk
  <2>6. Keys'
    <3>1. disk'.index = index /\ answered' = answered
      BY <2>1, <2>2, MintsStep
    <3> QED BY <2>3, <3>1, ListedKeys DEF Keys, Listed, OnDisk
  <2> QED BY <2>1, <2>2, <2>4, <2>5, <2>6, MintsStep DEF IInv
<1> QED BY <1>1, <1>2 DEF Compose

LEMMA RequestStep ==
    ASSUME IInv, NEW t \in Token, Request(t)
    PROVE  IInv'
<1>1. CASE MintFails /\ UNCHANGED queueing
  BY <1>1, MintFailsStep DEF Request
<1>2. CASE \E k \in Local : Mints(k) /\ queueing' = [id |-> k, key |-> t]
  <2>1. PICK k \in Local : Mints(k) /\ queueing' = [id |-> k, key |-> t]
    BY <1>2
  <2>2. Free /\ UNCHANGED <<file, composing, held, kept, withdrawn, acked, answered>>
    BY DEF Request
  <2>3. queueing'.id = k /\ queueing'.key = t /\ queueing' \in [id : Local, key : Token]
    BY <2>1
  <2>4. TypeOK'
    BY <2>1, <2>2, <2>3, MintsStep DEF IInv, TypeOK
  <2>5. disk'.index = index /\ index' = index /\ answered' = answered
    BY <2>1, <2>2, MintsStep
  <2>6. Pending'
    <3>1. Unused(k)' /\ k # composing /\ disk'.counter = counter + 1
      BY <2>1, <2>2, MintsStep
    <3>2. ASSUME composing # 0 PROVE Unused(composing)'
      <4>1. Unused(composing) /\ composing \in Local
        BY <3>2 DEF IInv, TypeOK, Pending
      <4>2. composing <= disk'.counter
        BY <3>1, <4>1, IdFacts, IdAssumption DEF IInv, TypeOK, Range, Unused
      <4> QED BY <2>2, <2>5, <4>1, <4>2 DEF Unused, Listed, OnDisk
    <3> QED BY <2>2, <2>3, <3>1, <3>2 DEF Pending, Unused, Listed, OnDisk
  <2>7. Keys'
    <3>1. \A i \in Id : index[i].key # t
      BY EntryFacts, ContentAssumption DEF Request, Listed
    <3> QED BY <2>3, <2>5, <3>1, ListedKeys DEF Keys, Listed, OnDisk
  <2> QED BY <2>1, <2>2, <2>4, <2>6, <2>7, MintsStep DEF IInv
<1> QED BY <1>1, <1>2 DEF Request

LEMMA AddStep == IInv /\ Add => IInv'
<1> SUFFICES ASSUME IInv, Add PROVE IInv'
  OBVIOUS
<1> DEFINE k == composing
           e == Meta(k, "outbox")
<1>1. k \in Local /\ k \in Id /\ k \notin Foreign /\ k # 0
  BY IdFacts DEF Add, IInv, TypeOK
<1>2. Unused(k) /\ Free
  BY <1>1 DEF Add, IInv, Pending
<1>3. e \in Entry /\ e # NoEntry /\ e.key = index[k].key /\ Text \in Content
  BY <1>1, MetaFacts, ContentAssumption DEF IInv, TypeOK
<1>4. index[k].key = NoToken
  BY <1>2, EntryFacts DEF Unused, Listed
<1>5. CASE Torn(k, e, Text) /\ composing' = 0 /\ UNCHANGED queueing
  BY <1>1, <1>3, <1>5, OneMoreBundle, TornStep DEF Torn, RolledBack
<1>6. CASE Dies(k, Text)
  <2>1. file' \in {file, [file EXCEPT ![k] = Text]}
    BY <1>6 DEF Dies
  <2> QED BY <1>1, <1>3, <1>6, <2>1, OneMoreBundle, LoadStep DEF Dies
<1>7. CASE /\ Published(k, e, Text)
           /\ composing' = 0
           /\ UNCHANGED <<queueing, held, acked, answered, taken>>
  <2> HIDE DEF e
  <2>1. /\ index' = [index EXCEPT ![k] = e] /\ index' \in [Id -> Entry]
        /\ disk'.index = index' /\ disk'.counter = counter /\ counter' = counter
        /\ disk' = [index |-> index', counter |-> counter]
        /\ file' = [file EXCEPT ![k] = Text] /\ file' \in [Id -> Content \cup {Missing}]
        /\ kept' = kept \cup {k} /\ kept' \subseteq Id
        /\ withdrawn' \subseteq Id /\ dirty' = FALSE
        /\ Matches' /\ Bundles' /\ KeptListed' /\ FailuresLeaveNoTrace'
    BY <1>1, <1>3, <1>7, PublishedStep
  <2>2. TypeOK'
    BY <1>7, <2>1 DEF IInv, TypeOK
  <2>3. AckedKept'
    BY <1>1, <1>7, <2>1, IdFacts DEF IInv, TypeOK, AckedKept
  <2>4. Range'
    <3>1. /\ disk.counter \in Nat /\ counter \in Nat /\ disk.counter <= counter
          /\ k <= disk.counter /\ Local \subseteq Nat /\ Local \subseteq Id
          /\ taken \subseteq Local
      BY <1>2, IdFacts, IdAssumption DEF IInv, TypeOK, Range, Unused
    <3>2. \A i \in Local : index'[i] # NoEntry => i <= counter
      <4>1. TAKE i \in Local
      <4>2. CASE i = k
        BY <1>1, <3>1, <4>2
      <4>3. CASE i # k
        BY <2>1, <3>1, <4>3 DEF IInv, TypeOK, Range, Listed
      <4> QED BY <4>2, <4>3
    <3>3. \A t \in Token : answered'[t] <= counter
      <4>1. TAKE t \in Token
      <4>2. answered[t] \in Nat /\ answered[t] <= disk.counter
        BY AnsweredFacts
      <4>3. answered' = answered
        BY <1>7
      <4> QED BY <3>1, <4>2, <4>3
    <3>4. \A i \in taken' : i <= counter
      <4>1. TAKE i \in taken'
      <4>2. i \in Nat /\ i <= disk.counter
        BY <1>7, <3>1 DEF IInv, Range
      <4> QED BY <3>1, <4>2
    <3> QED BY <2>1, <3>1, <3>2, <3>3, <3>4 DEF Range, Listed, OnDisk
  <2>5. Pending'
    BY <1>2, <1>7 DEF Pending, Free
  <2>6. Keys'
    <3>1. \A i \in Id : index'[i].key = index[i].key
      BY <1>3, <2>1 DEF IInv, TypeOK
    <3>2. \A t \in Token : answered[t] # k
      BY <1>2 DEF Unused
    <3>3. \A i \in Id : i # k => (index'[i] # NoEntry <=> Listed(i))
      BY <2>1 DEF IInv, TypeOK, Listed
    <3> QED BY <1>2, <1>7, <2>1, <3>1, <3>2, <3>3, ListedKeys DEF Keys, OnDisk, Free
  <2> QED BY <2>1, <2>2, <2>3, <2>4, <2>5, <2>6 DEF IInv
<1> QED BY <1>5, <1>6, <1>7 DEF Add

LEMMA RepeatStep ==
    ASSUME IInv, NEW t \in Token, Repeat(t)
    PROVE  IInv'
<1>1. PICK i \in Id :
        /\ Listed(i) /\ index[i].key = t
        /\ answered' = [answered EXCEPT ![t] = i]
        /\ kept' = kept \cup ({i} \ withdrawn)
  BY DEF Repeat
<1>2. /\ UNCHANGED <<index, counter, disk, file, composing, queueing>>
      /\ UNCHANGED <<held, withdrawn, acked, taken, dirty>> /\ Free
  BY DEF Repeat, store, callers
<1>3. i \in Local /\ OnDisk(i) /\ disk.index[i].key = t
  BY <1>1, ListedKeys, ContentAssumption DEF IInv, Matches
<1>4. TypeOK'
  BY <1>1, <1>2, <1>3 DEF IInv, TypeOK
<1>5. Matches' /\ Bundles' /\ KeptListed' /\ AckedKept'
  BY <1>1, <1>2 DEF IInv, Matches, Bundles, KeptListed, AckedKept, Listed, OnDisk
<1>6. Range'
  <2>1. i <= disk.counter
    BY <1>1, <1>3 DEF IInv, Range
  <2> QED BY <1>1, <1>2, <2>1 DEF IInv, TypeOK, Range, Listed, OnDisk
<1>7. Pending'
  BY <1>1, <1>2 DEF IInv, TypeOK, Pending, Unused, Listed, OnDisk, Free
<1>8. Keys'
  BY <1>1, <1>2, <1>3 DEF IInv, TypeOK, Keys, OnDisk, Free
<1> QED BY <1>2, <1>4, <1>5, <1>6, <1>7, <1>8 DEF IInv, FailuresLeaveNoTrace

LEMMA QueueStep == IInv /\ Queue => IInv'
<1> SUFFICES ASSUME IInv, Queue PROVE IInv'
  OBVIOUS
<1> DEFINE k == queueing.id
           t == queueing.key
           e == [Meta(k, "outbox") EXCEPT !.key = t]
<1>1. /\ k \in Local /\ k \in Id /\ k \notin Foreign /\ k # 0 /\ t \in Token
  BY IdFacts DEF Queue, IInv, TypeOK, Free
<1>2. Unused(k) /\ composing # k /\ k \notin kept
  BY <1>1 DEF Queue, IInv, Pending, KeptListed, Unused
<1>3. e \in Entry /\ e # NoEntry /\ e.key = t /\ Text \in Content
  <2>1. Meta(k, "outbox") \in Entry /\ Meta(k, "outbox") # NoEntry
    BY <1>1, MetaFacts, ContentAssumption DEF IInv, TypeOK
  <2> QED BY <1>1, <2>1, TokenFacts, ContentAssumption
<1>4. CASE /\ file' \in {file, [file EXCEPT ![k] = Text]}
           /\ Unsaved([index EXCEPT ![k] = NoEntry], counter)
           /\ queueing' = NoRequest
           /\ UNCHANGED <<composing, held, history>>
  <2>1. MoreBundles
    BY <1>1, <1>3, <1>4, OneMoreBundle
  <2>2. index' = index
    BY <1>2, <1>4 DEF IInv, TypeOK, Unsaved, Unused, Listed
  <2>3. UNCHANGED <<index, counter, disk, dirty, composing, held, history>>
    BY <1>2, <1>4, <2>2 DEF Unsaved, IInv, TypeOK
  <2>4. Free'
    BY <1>4 DEF Free
  <2>5. TypeOK'
    BY <1>4, <2>1, <2>3 DEF IInv, TypeOK, MoreBundles, history
  <2>6. Matches' /\ Bundles' /\ KeptListed' /\ AckedKept'
    BY <2>1, <2>3 DEF IInv, Matches, Bundles, KeptListed, AckedKept, Listed, OnDisk,
                      MoreBundles, history
  <2>7. Range'
    BY <2>3 DEF IInv, Range, Listed, OnDisk, history
  <2>8. Pending'
    <3>1. queueing'.id = 0
      BY <1>4 DEF NoRequest
    <3> QED BY <2>3, <2>4, <3>1 DEF IInv, Pending, Unused, Listed, OnDisk, history
  <2>9. Keys'
    BY <2>3, <2>4 DEF IInv, Keys, OnDisk, history
  <2> QED BY <2>3, <2>5, <2>6, <2>7, <2>8, <2>9 DEF IInv, FailuresLeaveNoTrace
<1>5. CASE Dies(k, Text)
  <2>1. file' \in {file, [file EXCEPT ![k] = Text]}
    BY <1>5 DEF Dies
  <2> QED BY <1>1, <1>3, <1>5, <2>1, OneMoreBundle, LoadStep DEF Dies
<1>6. CASE /\ Published(k, e, Text)
           /\ answered' = [answered EXCEPT ![t] = k]
           /\ queueing' = NoRequest
           /\ UNCHANGED <<composing, held, acked, taken>>
  <2> HIDE DEF e
  <2>1. /\ index' = [index EXCEPT ![k] = e] /\ index' \in [Id -> Entry]
        /\ disk'.index = index' /\ disk'.counter = counter /\ counter' = counter
        /\ disk' = [index |-> index', counter |-> counter]
        /\ file' = [file EXCEPT ![k] = Text] /\ file' \in [Id -> Content \cup {Missing}]
        /\ kept' = kept \cup {k} /\ kept' \subseteq Id
        /\ withdrawn' \subseteq Id /\ dirty' = FALSE
        /\ Matches' /\ Bundles' /\ KeptListed' /\ FailuresLeaveNoTrace'
    BY <1>1, <1>3, <1>6, PublishedStep
  <2>2. Free' /\ queueing'.id = 0
    BY <1>6 DEF Free, NoRequest
  <2>3. TypeOK'
    BY <1>1, <1>6, <2>1 DEF IInv, TypeOK
  <2>4. AckedKept'
    BY <1>1, <1>6, <2>1, IdFacts DEF IInv, TypeOK, AckedKept
  <2>5. k <= counter /\ disk.counter <= counter
    BY <1>1, <1>2, IdFacts, IdAssumption DEF IInv, TypeOK, Range, Unused
  <2>6. Range'
    <3>1. \A i \in Local : Listed(i)' \/ OnDisk(i)' => i <= disk'.counter
      BY <1>1, <2>1, <2>5, IdFacts, IdAssumption DEF IInv, TypeOK, Range, Listed, OnDisk
    <3>2. \A u \in Token : answered'[u] <= disk'.counter
      <4>1. TAKE u \in Token
      <4>2. answered[u] \in {0} \cup Local /\ answered[u] <= disk.counter
        BY DEF IInv, TypeOK, Range
      <4>3. answered'[u] \in {k, answered[u]}
        BY <1>6 DEF IInv, TypeOK
      <4> QED BY <1>1, <2>1, <2>5, <4>2, <4>3, IdFacts, IdAssumption DEF IInv, TypeOK
    <3>3. \A i \in taken' : i <= disk'.counter
      BY <1>6, <2>1, <2>5, IdFacts, IdAssumption DEF IInv, TypeOK, Range
    <3> QED BY <2>1, <2>5, <3>1, <3>2, <3>3, IdAssumption DEF IInv, TypeOK, Range
  <2>7. Pending'
    <3> SUFFICES ASSUME composing # 0 PROVE Unused(composing)'
      BY <1>6, <2>2, IdFacts DEF Pending, Unused, Listed, OnDisk
    <3>1. Unused(composing) /\ composing \in Local /\ composing \in Id
      BY IdFacts DEF IInv, TypeOK, Pending
    <3>2. composing <= counter
      BY <2>5, <3>1, IdFacts, IdAssumption DEF IInv, TypeOK, Unused
    <3>3. index'[composing] = NoEntry
      BY <1>2, <2>1, <3>1 DEF IInv, TypeOK, Unused, Listed
    <3>4. \A u \in Token : answered'[u] # composing
      BY <1>2, <1>6, <3>1 DEF IInv, TypeOK, Unused
    <3> QED BY <1>6, <2>1, <3>2, <3>3, <3>4 DEF Unused, Listed, OnDisk
  <2>8. Keys'
    <3>1. \A i \in Id : i # k => index'[i] = index[i] /\ index[i].key # t
      BY <2>1, ListedKeys DEF IInv, TypeOK, Queue
    <3>2. index'[k].key = t
      BY <1>1, <1>3, <2>1 DEF IInv, TypeOK
    <3>3. \A u \in Token : answered[u] # k
      BY <1>2 DEF Unused
    <3>4. \A i \in Id : index'[i].key # NoToken => i \in Local
      BY <1>1, <3>1, ListedKeys
    <3>5. \A i, j \in Id :
            index'[i].key = index'[j].key /\ index'[i].key # NoToken => i = j
      BY <3>1, <3>2, ListedKeys
    <3>6. \A u \in Token, i \in Id :
            index'[i] # NoEntry /\ answered'[u] = i => index'[i].key = u
      <4>1. TAKE u \in Token, i \in Id
      <4>2. CASE i = k
        BY <1>6, <3>2, <3>3, <4>2 DEF IInv, TypeOK
      <4>3. CASE i # k
        BY <1>1, <1>6, <3>1, <4>3, ListedKeys DEF IInv, TypeOK, Listed
      <4> QED BY <4>2, <4>3
    <3> QED BY <2>1, <2>2, <3>4, <3>5, <3>6 DEF Keys, OnDisk
  <2> QED BY <2>1, <2>3, <2>4, <2>6, <2>7, <2>8 DEF IInv
<1> QED BY <1>4, <1>5, <1>6 DEF Queue

\* A message that was known, or came from elsewhere, is published: the ids and
\* tokens in use stay what they are.
LEMMA ArrivalStep ==
    ASSUME IInv, Free, NEW i \in Id, NEW e \in Entry, e # NoEntry, NEW c \in Content,
           Published(i, e, c), e.key = index[i].key, Listed(i) \/ i \in Foreign,
           UNCHANGED <<callers, answered, taken>>
    PROVE  Range' /\ Pending' /\ Keys'
<1>1. /\ index' = [index EXCEPT ![i] = e] /\ disk'.index = index'
      /\ disk'.counter = counter /\ counter' = counter
  BY PublishedStep
<1>2. \A j \in Id : index'[j].key = index[j].key
  BY <1>1 DEF IInv, TypeOK
<1>3. \A j \in Id : j \notin Foreign => (index'[j] # NoEntry <=> Listed(j))
  BY <1>1 DEF IInv, TypeOK, Listed
<1>4. /\ disk.counter \in Nat /\ counter \in Nat /\ disk.counter <= counter
      /\ Local \subseteq Nat /\ Local \subseteq Id /\ taken \subseteq Local
      /\ Foreign \cap Local = {}
  BY IdFacts, IdAssumption DEF IInv, TypeOK, Range
<1>5. Range'
  <2>1. \A j \in Local : index'[j] # NoEntry => j <= counter
    BY <1>3, <1>4 DEF IInv, Range
  <2>2. \A t \in Token : answered'[t] <= counter
    <3>1. TAKE t \in Token
    <3>2. answered[t] \in Nat /\ answered[t] <= disk.counter
      BY AnsweredFacts
    <3> QED BY <1>4, <3>2
  <2>3. \A j \in taken' : j <= counter
    <3>1. TAKE j \in taken'
    <3>2. j \in Nat /\ j <= disk.counter
      BY <1>4 DEF IInv, Range
    <3> QED BY <1>4, <3>2
  <2> QED BY <1>1, <1>4, <2>1, <2>2, <2>3 DEF Range, Listed, OnDisk
<1>6. Pending'
  <2> SUFFICES ASSUME composing # 0
               PROVE  Unused(composing)' /\ composing # queueing.id
    BY DEF Pending, Free, callers, Unused, Listed, OnDisk
  <2>1. Unused(composing) /\ composing \in Local /\ composing # queueing.id
    BY DEF IInv, TypeOK, Pending
  <2>2. composing <= counter
    <3>1. composing \in Nat /\ composing <= disk.counter
      BY <1>4, <2>1 DEF Unused
    <3> QED BY <1>4, <3>1
  <2>3. index'[composing] = NoEntry
    BY <1>3, <1>4, <2>1 DEF Unused
  <2> QED BY <1>1, <2>1, <2>2, <2>3 DEF Unused, Listed, OnDisk, callers
<1>7. Keys'
  <2>1. Free' /\ answered' = answered
    BY DEF Free, callers
  <2>2. \A t \in Token, j \in Id :
          index'[j] # NoEntry /\ answered[t] = j => index'[j].key = t
    <3>1. TAKE t \in Token, j \in Id
    <3>2. ASSUME answered[t] = j PROVE j \notin Foreign
      BY <3>2, IdFacts DEF IInv, TypeOK
    <3> QED BY <1>2, <1>3, <3>2, ListedKeys
  <2> QED BY <1>1, <1>2, <2>1, <2>2, ListedKeys DEF Keys, OnDisk
<1> QED BY <1>5, <1>6, <1>7

LEMMA StoreIncomingStep ==
    ASSUME IInv, NEW i \in Id, NEW c \in Content, StoreIncoming(i, c)
    PROVE  IInv'
<1>1. Free /\ (Listed(i) \/ i \in Foreign) /\ (index[i].server => file[i] = c)
  BY DEF StoreIncoming, IInv, KeptListed, SameMessage, FromServer
<1>2. CASE index[i].server
  <2>1. file[i] = c /\ c # Missing /\ Listed(i)
    BY <1>1, <1>2, ContentAssumption, EntryFacts DEF Listed
  <2>2. /\ kept' = kept \cup {i} /\ withdrawn' = withdrawn \ {i}
        /\ UNCHANGED <<index, counter, disk, file, composing, queueing>>
        /\ UNCHANGED <<held, acked, answered, taken, dirty>>
    BY <1>2 DEF StoreIncoming, FromServer, Arrived, store, callers
  <2>3. TypeOK'
    BY <2>2 DEF IInv, TypeOK
  <2>4. Matches' /\ Bundles' /\ KeptListed' /\ AckedKept'
    BY <2>1, <2>2 DEF IInv, Matches, Bundles, KeptListed, AckedKept, Listed, OnDisk
  <2>5. Range' /\ Pending' /\ Keys' /\ FailuresLeaveNoTrace'
    BY <2>2 DEF IInv, Range, Pending, Keys, FailuresLeaveNoTrace, Unused, Listed, OnDisk, Free
  <2> QED BY <2>3, <2>4, <2>5 DEF IInv
<1>3. CASE ~index[i].server
  <2>1. PICK folder \in Folder \cap {"inbox", "transit"} :
          \/ /\ Published(i, Meta(i, folder), c)
             /\ UNCHANGED <<callers, held, acked, answered, taken>>
          \/ Torn(i, Meta(i, folder), c) /\ UNCHANGED callers
          \/ Dies(i, c)
    BY <1>3 DEF StoreIncoming, FromServer
  <2> DEFINE e == Meta(i, folder)
  <2>2. e \in Entry /\ e # NoEntry /\ e.key = index[i].key
    BY MetaFacts, ContentAssumption DEF IInv, TypeOK
  <2>3. i \in Foreign => acked[i] = Missing
    BY <1>3 DEF IInv, AckedKept
  <2>4. CASE Torn(i, e, c) /\ UNCHANGED callers
    BY <2>3, <2>4, OneMoreBundle, TornStep DEF Torn, RolledBack, callers
  <2>5. CASE Dies(i, c)
    <3>1. file' \in {file, [file EXCEPT ![i] = c]}
      BY <2>5 DEF Dies
    <3> QED BY <2>3, <2>5, <3>1, OneMoreBundle, LoadStep DEF Dies
  <2>6. CASE /\ Published(i, e, c)
             /\ UNCHANGED <<callers, held, acked, answered, taken>>
    <3> HIDE DEF e
    <3>1. Range' /\ Pending' /\ Keys'
      BY <1>1, <2>2, <2>6, ArrivalStep
    <3>2. /\ index' = [index EXCEPT ![i] = e] /\ index' \in [Id -> Entry]
          /\ disk' = [index |-> index', counter |-> counter] /\ counter' = counter
          /\ file' = [file EXCEPT ![i] = c] /\ file' \in [Id -> Content \cup {Missing}]
          /\ kept' = kept \cup {i} /\ kept' \subseteq Id
          /\ withdrawn' \subseteq Id /\ dirty' = FALSE
          /\ Matches' /\ Bundles' /\ KeptListed' /\ FailuresLeaveNoTrace'
      BY <2>2, <2>6, PublishedStep
    <3>3. TypeOK'
      BY <2>6, <3>2 DEF IInv, TypeOK, callers
    <3>4. AckedKept'
      BY <2>3, <2>6, <3>2, IdFacts DEF IInv, TypeOK, AckedKept
    <3> QED BY <3>1, <3>2, <3>3, <3>4 DEF IInv
  <2> QED BY <2>1, <2>4, <2>5, <2>6
<1> QED BY <1>2, <1>3

\* What the server holds is a bundle.
LEMMA HeldFacts ==
    ASSUME IInv, NEW i \in Foreign, held[i] # Missing, Acknowledge(i)
    PROVE  /\ held[i] \in Content
           /\ held' \in [Foreign -> Content \cup {Missing}]
           /\ acked' = [acked EXCEPT ![i] = held[i]]
           /\ acked' \in [Foreign -> Content \cup {Missing}]
           /\ UNCHANGED <<callers, answered, taken>>
BY DEF IInv, TypeOK, Acknowledge

LEMMA ImportNewStep ==
    ASSUME IInv, NEW i \in Foreign, ImportNew(i)
    PROVE  IInv'
<1>1. /\ Free /\ held[i] # Missing /\ ~Listed(i) /\ i \in Id
      /\ Published(i, Imported, held[i]) /\ Acknowledge(i)
  BY IdFacts DEF ImportNew
<1>2. /\ held[i] \in Content
      /\ held' \in [Foreign -> Content \cup {Missing}]
      /\ acked' = [acked EXCEPT ![i] = held[i]]
      /\ acked' \in [Foreign -> Content \cup {Missing}]
      /\ UNCHANGED <<callers, answered, taken>>
  BY <1>1, HeldFacts
<1>3. /\ Imported \in Entry /\ Imported # NoEntry /\ Imported.key = index[i].key
      /\ Imported.server = TRUE
  BY <1>1, EntryFacts DEF Listed
<1>4. Range' /\ Pending' /\ Keys'
  BY <1>1, <1>2, <1>3, ArrivalStep
<1>5. /\ index' = [index EXCEPT ![i] = Imported] /\ index' \in [Id -> Entry]
      /\ disk' = [index |-> index', counter |-> counter] /\ counter' = counter
      /\ file' = [file EXCEPT ![i] = held[i]] /\ file' \in [Id -> Content \cup {Missing}]
      /\ kept' = kept \cup {i} /\ kept' \subseteq Id
      /\ withdrawn' \subseteq Id /\ dirty' = FALSE
      /\ Matches' /\ Bundles' /\ KeptListed' /\ FailuresLeaveNoTrace'
  BY <1>1, <1>2, <1>3, PublishedStep
<1>6. TypeOK'
  BY <1>2, <1>5 DEF IInv, TypeOK, callers
<1>7. AckedKept'
  BY <1>1, <1>2, <1>3, <1>5, IdFacts DEF IInv, TypeOK, AckedKept
<1> QED BY <1>4, <1>5, <1>6, <1>7 DEF IInv

LEMMA ImportFailsStep ==
    ASSUME IInv, NEW i \in Foreign, ImportFails(i)
    PROVE  IInv'
<1>1. /\ i \in Id /\ held[i] \in Content /\ acked[i] = Missing
  BY IdFacts DEF ImportFails, IInv, TypeOK, AckedKept, KeptListed
<1>2. CASE Torn(i, Imported, held[i]) /\ UNCHANGED callers
  BY <1>1, <1>2, OneMoreBundle, TornStep DEF Torn, RolledBack, callers
<1>3. CASE Dies(i, held[i])
  <2>1. file' \in {file, [file EXCEPT ![i] = held[i]]}
    BY <1>3 DEF Dies
  <2> QED BY <1>1, <1>3, <2>1, OneMoreBundle, LoadStep DEF Dies
<1> QED BY <1>2, <1>3 DEF ImportFails

\* Entries change, but for their tokens and what is listed.
Relists(idx) ==
    /\ idx \in [Id -> Entry]
    /\ \A i \in Id :
        /\ idx[i] # NoEntry <=> Listed(i)
        /\ idx[i].key = index[i].key
        /\ index[i].server => idx[i].server

LEMMA RelistStep ==
    ASSUME IInv, NEW idx, Relists(idx), Saved(idx, counter),
           UNCHANGED <<file, callers, answered, taken>>
    PROVE  /\ index' \in [Id -> Entry] /\ counter' = counter /\ dirty' \in BOOLEAN
           /\ disk' \in [index : [Id -> Entry], counter : 0..MaxCounter]
           /\ Matches' /\ Range' /\ Pending' /\ Keys' /\ FailuresLeaveNoTrace'
           /\ \A i \in Id : (Listed(i)' <=> Listed(i)) /\ (OnDisk(i)' <=> Listed(i))
<1>1. /\ index' = idx /\ counter' = counter /\ dirty' = FALSE
      /\ disk' = [index |-> idx, counter |-> counter]
      /\ disk'.index = idx /\ disk'.counter = counter
  BY DEF Saved
<1>2. /\ disk.counter \in Nat /\ counter \in Nat /\ disk.counter <= counter
      /\ Local \subseteq Nat /\ Local \subseteq Id /\ taken \subseteq Local
      /\ composing \in {0} \cup Local /\ counter \in 0..MaxCounter
  BY IdFacts, IdAssumption DEF IInv, TypeOK, Range
<1>3. \A i \in Id : (idx[i] # NoEntry <=> Listed(i)) /\ idx[i].key = index[i].key
  BY DEF Relists
<1>4. Matches' /\ FailuresLeaveNoTrace'
  BY <1>1 DEF Matches, Listed, OnDisk, FailuresLeaveNoTrace
<1>5. Range'
  <2>1. \A j \in Local : idx[j] # NoEntry => j <= counter
    <3>1. TAKE j \in Local
    <3>2. Listed(j) => j <= disk.counter
      BY DEF IInv, Range
    <3>3. idx[j] # NoEntry <=> Listed(j)
      BY <1>2, <1>3
    <3> QED BY <1>2, <3>2, <3>3
  <2>2. \A t \in Token : answered'[t] <= counter
    <3>1. TAKE t \in Token
    <3>2. answered[t] \in Nat /\ answered[t] <= disk.counter
      BY AnsweredFacts
    <3> QED BY <1>2, <3>2
  <2>3. \A j \in taken' : j <= counter
    <3>1. TAKE j \in taken'
    <3>2. j \in Nat /\ j <= disk.counter
      BY <1>2 DEF IInv, Range
    <3> QED BY <1>2, <3>2
  <2> QED BY <1>1, <1>2, <2>1, <2>2, <2>3 DEF Range, Listed, OnDisk
<1>6. Pending'
  <2>1. ASSUME NEW x \in Local, Unused(x) PROVE Unused(x)'
    <3>1. x <= counter /\ idx[x] = NoEntry
      BY <1>2, <1>3, <2>1 DEF Unused
    <3> QED BY <1>1, <2>1, <3>1 DEF Unused, Listed, OnDisk
  <2>2. ~Free => queueing.id \in Local
    BY DEF IInv, TypeOK, Free
  <2>3. Free' <=> Free
    BY DEF Free, callers
  <2>4. composing' = composing /\ queueing' = queueing
    BY DEF callers
  <2>5. ASSUME composing # 0 PROVE Unused(composing)' /\ composing # queueing.id
    <3>1. composing \in Local /\ Unused(composing) /\ composing # queueing.id
      BY <1>2, <2>5 DEF IInv, Pending
    <3> QED BY <2>1, <2>4, <3>1
  <2>6. ASSUME ~Free PROVE Unused(queueing.id)'
    <3>1. queueing.id \in Local /\ Unused(queueing.id)
      BY <2>2, <2>6 DEF IInv, Pending
    <3> QED BY <2>1, <2>4, <3>1
  <2> QED BY <2>3, <2>4, <2>5, <2>6 DEF Pending
<1>7. Keys'
  BY <1>1, <1>3, ListedKeys DEF Keys, OnDisk, Free, callers
<1>8. \A i \in Id : (Listed(i)' <=> Listed(i)) /\ (OnDisk(i)' <=> Listed(i))
  BY <1>1, <1>3 DEF Listed, OnDisk
<1> QED BY <1>1, <1>2, <1>4, <1>5, <1>6, <1>7, <1>8 DEF Relists

LEMMA RelistAlone ==
    ASSUME IInv, NEW idx, Relists(idx), Saved(idx, counter),
           UNCHANGED <<file, callers, held, history>>
    PROVE  IInv'
<1> USE DEF history
<1>1. /\ index' \in [Id -> Entry] /\ counter' = counter /\ dirty' \in BOOLEAN
      /\ disk' \in [index : [Id -> Entry], counter : 0..MaxCounter]
      /\ Matches' /\ Range' /\ Pending' /\ Keys' /\ FailuresLeaveNoTrace'
      /\ \A i \in Id : (Listed(i)' <=> Listed(i)) /\ (OnDisk(i)' <=> Listed(i))
  BY RelistStep
<1>2. TypeOK'
  BY <1>1 DEF IInv, TypeOK, callers
<1>3. Bundles'
  <2> SUFFICES ASSUME NEW i \in Id, OnDisk(i)', i \notin withdrawn
               PROVE  file[i] # Missing
    BY DEF Bundles
  <2> QED BY <1>1 DEF IInv, Matches, Bundles
<1>4. KeptListed'
  <2> SUFFICES ASSUME NEW i \in kept PROVE Listed(i)' /\ i \notin withdrawn
    BY DEF KeptListed
  <2>1. i \in Id /\ Listed(i) /\ i \notin withdrawn
    BY DEF IInv, TypeOK, KeptListed
  <2> QED BY <1>1, <2>1
<1>5. AckedKept'
  BY IdFacts DEF IInv, AckedKept, Relists, Saved
<1> QED BY <1>1, <1>2, <1>3, <1>4, <1>5 DEF IInv

LEMMA SetStatusStep ==
    ASSUME IInv, NEW i \in Id, SetStatus(i)
    PROVE  IInv'
<1>1. PICK folder \in Folder :
        LET idx == [index EXCEPT ![i].folder = folder] IN
        Saved(idx, counter) \/ Unsaved(idx, counter)
  BY DEF SetStatus
<1> DEFINE idx == [index EXCEPT ![i] = Meta(i, folder)]
<1>2. Saved(idx, counter) \/ Unsaved(idx, counter)
  BY <1>1 DEF Meta, IInv, TypeOK
<1>3. Relists(idx)
  <2>1. /\ Meta(i, folder) \in Entry /\ Meta(i, folder) # NoEntry
        /\ Meta(i, folder).key = index[i].key /\ Meta(i, folder).server = index[i].server
    BY MetaFacts DEF IInv, TypeOK
  <2>2. Listed(i)
    BY DEF SetStatus
  <2> QED BY <2>1, <2>2 DEF Relists, IInv, TypeOK, Listed
<1>4. UNCHANGED <<file, callers, held, history>>
  BY DEF SetStatus
<1> HIDE DEF idx
<1>5. CASE Saved(idx, counter)
  BY <1>3, <1>4, <1>5, RelistAlone
<1>6. CASE Unsaved(idx, counter)
  <2> USE DEF history
  <2>1. /\ index' = idx /\ UNCHANGED <<counter, disk>> /\ dirty' = (dirty \/ idx # index)
    BY <1>6 DEF Unsaved
  <2>2. /\ idx \in [Id -> Entry]
        /\ \A j \in Id : idx[j] # NoEntry <=> index[j] # NoEntry
        /\ \A j \in Id : idx[j].key = index[j].key
    BY <1>3 DEF Relists, Listed
  <2>3. \A j \in Id : idx[j].server = index[j].server
    BY MetaFacts DEF idx, IInv, TypeOK
  <2>4. TypeOK'
    BY <1>4, <2>1, <2>2 DEF IInv, TypeOK, callers
  <2>5. Matches'
    BY <2>1, <2>2, <2>3 DEF IInv, Matches, Listed, OnDisk
  <2>6. Bundles'
    BY <1>4, <2>1 DEF IInv, Bundles, OnDisk
  <2>7. KeptListed'
    BY <1>4, <2>1, <2>2 DEF IInv, TypeOK, KeptListed, Listed
  <2>8. AckedKept'
    <3> SUFFICES ASSUME NEW j \in Foreign, acked[j] # Missing
                 PROVE  j \in kept /\ file[j] = acked[j] /\ idx[j].server
      BY <1>4, <2>1 DEF AckedKept
    <3>1. j \in kept /\ file[j] = acked[j] /\ index[j].server
      BY DEF IInv, AckedKept
    <3> QED BY <2>3, <3>1, IdFacts
  <2>9. Range'
    BY <1>4, <2>1, <2>2, IdFacts DEF IInv, Range, Listed, OnDisk
  <2>10. Pending'
    <3>1. ASSUME NEW x \in Local, Unused(x) PROVE Unused(x)'
      BY <1>4, <2>1, <2>2, <3>1, IdFacts DEF Unused, Listed, OnDisk
    <3>2. Free' <=> Free
      BY <1>4 DEF Free, callers
    <3>3. composing \in {0} \cup Local /\ (~Free => queueing.id \in Local)
      BY DEF IInv, TypeOK, Free
    <3>4. composing' = composing /\ queueing' = queueing
      BY <1>4 DEF callers
    <3>5. ASSUME composing # 0 PROVE Unused(composing)' /\ composing # queueing.id
      <4>1. composing \in Local /\ Unused(composing) /\ composing # queueing.id
        BY <3>3, <3>5 DEF IInv, Pending
      <4> QED BY <3>1, <3>4, <4>1
    <3>6. ASSUME ~Free PROVE Unused(queueing.id)'
      <4>1. queueing.id \in Local /\ Unused(queueing.id)
        BY <3>3, <3>6 DEF IInv, Pending
      <4> QED BY <3>1, <3>4, <4>1
    <3> QED BY <3>2, <3>4, <3>5, <3>6 DEF Pending
  <2>11. Keys'
    BY <1>4, <2>1 DEF IInv, Keys, OnDisk, Free, callers
  <2>12. FailuresLeaveNoTrace'
    BY <2>1 DEF IInv, FailuresLeaveNoTrace
  <2> QED BY <2>4, <2>5, <2>6, <2>7, <2>8, <2>9, <2>10, <2>11, <2>12 DEF IInv
<1> QED BY <1>2, <1>5, <1>6

\* Setting server on a listed entry.
LEMMA ServerRelists ==
    ASSUME IInv, NEW i \in Id, Listed(i)
    PROVE  /\ Relists([index EXCEPT ![i].server = TRUE])
           /\ [index EXCEPT ![i].server = TRUE][i].server
<1> DEFINE e == [index[i] EXCEPT !.server = TRUE]
           idx == [index EXCEPT ![i] = e]
<1>1. [index EXCEPT ![i].server = TRUE] = idx
  OBVIOUS
<1>2. e \in Entry /\ e # NoEntry /\ e.key = index[i].key /\ e.server = TRUE
  BY ServerFacts DEF Listed, IInv, TypeOK
<1>3. index \in [Id -> Entry]
  BY DEF IInv, TypeOK
<1> HIDE DEF e
<1>4. idx \in [Id -> Entry] /\ idx[i] = e /\ \A j \in Id : j # i => idx[j] = index[j]
  BY <1>2, <1>3
<1> HIDE DEF idx
<1>5. ASSUME NEW j \in Id
      PROVE  /\ idx[j] # NoEntry <=> Listed(j)
             /\ idx[j].key = index[j].key
             /\ index[j].server => idx[j].server
  BY <1>2, <1>4 DEF Listed
<1> QED BY <1>1, <1>2, <1>4, <1>5 DEF Relists

LEMMA ServerPathStep ==
    ASSUME IInv, NEW i \in Id, ServerPath(i)
    PROVE  IInv'
BY ServerRelists, RelistAlone DEF ServerPath

LEMMA ImportKnownStep ==
    ASSUME IInv, NEW i \in Foreign, ImportKnown(i)
    PROVE  IInv'
<1> DEFINE idx == [index EXCEPT ![i].server = TRUE]
<1>1. /\ Free /\ held[i] # Missing /\ Listed(i) /\ file[i] = held[i] /\ i \in Id
      /\ Saved(idx, counter) /\ Acknowledge(i) /\ UNCHANGED file
      /\ kept' = kept \cup {i} /\ withdrawn' = withdrawn \ {i}
  BY IdFacts DEF ImportKnown
<1>2. Relists(idx) /\ idx[i].server /\ index' = idx
  BY <1>1, ServerRelists DEF Saved
<1> HIDE DEF idx
<1>3. /\ held' \in [Foreign -> Content \cup {Missing}]
      /\ acked' = [acked EXCEPT ![i] = held[i]]
      /\ acked' \in [Foreign -> Content \cup {Missing}]
      /\ UNCHANGED <<callers, answered, taken>>
  BY <1>1, HeldFacts
<1>4. /\ index' \in [Id -> Entry] /\ counter' = counter /\ dirty' \in BOOLEAN
      /\ disk' \in [index : [Id -> Entry], counter : 0..MaxCounter]
      /\ Matches' /\ Range' /\ Pending' /\ Keys' /\ FailuresLeaveNoTrace'
      /\ \A j \in Id : (Listed(j)' <=> Listed(j)) /\ (OnDisk(j)' <=> Listed(j))
  BY <1>1, <1>2, <1>3, RelistStep
<1>5. TypeOK'
  BY <1>1, <1>3, <1>4 DEF IInv, TypeOK, callers
<1>6. Bundles'
  <2> SUFFICES ASSUME NEW j \in Id, OnDisk(j)', j \notin withdrawn'
               PROVE  file[j] # Missing
    BY <1>1 DEF Bundles
  <2>1. CASE j = i
    BY <1>1, <2>1
  <2>2. CASE j # i
    <3>1. Listed(j) /\ j \notin withdrawn
      BY <1>1, <1>4, <2>2
    <3> QED BY <3>1 DEF IInv, Matches, Bundles
  <2> QED BY <2>1, <2>2
<1>7. KeptListed'
  <2> SUFFICES ASSUME NEW j \in kept' PROVE Listed(j)' /\ j \notin withdrawn'
    BY DEF KeptListed
  <2>1. j \in Id /\ Listed(j)
    BY <1>1 DEF IInv, TypeOK, KeptListed
  <2>2. j \notin withdrawn'
    BY <1>1 DEF IInv, KeptListed
  <2> QED BY <1>4, <2>1, <2>2
<1>8. AckedKept'
  <2> SUFFICES ASSUME NEW j \in Foreign, acked'[j] # Missing
               PROVE  j \in kept' /\ file[j] = acked'[j] /\ idx[j].server
    BY <1>1, <1>2 DEF AckedKept
  <2>1. CASE j = i
    BY <1>1, <1>2, <1>3, <2>1 DEF IInv, TypeOK
  <2>2. CASE j # i
    <3>1. acked'[j] = acked[j] /\ j \in Id
      BY <1>3, <2>2, IdFacts DEF IInv, TypeOK
    <3>2. j \in kept /\ file[j] = acked[j] /\ index[j].server
      BY <3>1 DEF IInv, AckedKept
    <3> QED BY <1>1, <1>2, <3>1, <3>2 DEF Relists
  <2> QED BY <2>1, <2>2
<1> QED BY <1>4, <1>5, <1>6, <1>7, <1>8 DEF IInv

\* Messages leave the index, and their bundles before them.
LEMMA RemovalStep ==
    ASSUME IInv, Free, NEW gone \in SUBSET Id, NEW idx,
           idx = [i \in Id |-> IF i \in gone THEN NoEntry ELSE index[i]],
           Saved(idx, counter),
           file' \in [Id -> Content \cup {Missing}],
           \A i \in Id \ gone : file'[i] = file[i],
           Withdraw(gone), UNCHANGED callers
    PROVE  IInv'
<1>1. /\ index' = idx /\ counter' = counter /\ dirty' = FALSE
      /\ disk' = [index |-> idx, counter |-> counter]
      /\ disk'.index = idx /\ disk'.counter = counter
  BY DEF Saved
<1>2. /\ kept' = kept \ gone /\ withdrawn' = withdrawn \cup gone
      /\ acked' = [i \in Foreign |-> IF i \in gone THEN Missing ELSE acked[i]]
      /\ UNCHANGED <<held, answered, taken>>
  BY DEF Withdraw
<1>3. /\ idx \in [Id -> Entry]
      /\ \A i \in gone : idx[i] = NoEntry
      /\ \A i \in Id \ gone : idx[i] = index[i]
  BY EntryFacts DEF IInv, TypeOK
<1>4. /\ disk.counter \in Nat /\ counter \in Nat /\ disk.counter <= counter
      /\ Local \subseteq Nat /\ Local \subseteq Id /\ taken \subseteq Local
      /\ counter \in 0..MaxCounter
  BY IdFacts, IdAssumption DEF IInv, TypeOK, Range
<1>5. TypeOK'
  BY <1>1, <1>2, <1>3, <1>4 DEF IInv, TypeOK, callers
<1>6. Matches' /\ FailuresLeaveNoTrace'
  BY <1>1 DEF Matches, Listed, OnDisk, FailuresLeaveNoTrace
<1>7. Bundles'
  <2> SUFFICES ASSUME NEW i \in Id, idx[i] # NoEntry, i \notin withdrawn'
               PROVE  file'[i] # Missing
    BY <1>1 DEF Bundles, OnDisk
  <2>1. i \notin gone /\ i \notin withdrawn /\ Listed(i)
    BY <1>2, <1>3 DEF Listed
  <2> QED BY <2>1 DEF IInv, Matches, Bundles
<1>8. KeptListed'
  BY <1>1, <1>2, <1>3 DEF IInv, TypeOK, KeptListed, Listed
<1>9. AckedKept'
  <2> SUFFICES ASSUME NEW i \in Foreign, acked'[i] # Missing
               PROVE  i \in kept' /\ file'[i] = acked'[i] /\ idx[i].server
    BY <1>1 DEF AckedKept
  <2>1. i \in Id \ gone /\ acked'[i] = acked[i]
    BY <1>2, IdFacts
  <2>2. i \in kept /\ file[i] = acked[i] /\ index[i].server
    BY <2>1 DEF IInv, AckedKept
  <2> QED BY <1>2, <1>3, <2>1, <2>2
<1>10. Range'
  <2>1. \A j \in Local : idx[j] # NoEntry => j <= counter
    <3>1. TAKE j \in Local
    <3>2. Listed(j) => j <= disk.counter
      BY DEF IInv, Range
    <3>3. idx[j] # NoEntry => Listed(j)
      BY <1>3, <1>4 DEF Listed
    <3> QED BY <1>4, <3>2, <3>3
  <2>2. \A t \in Token : answered'[t] <= counter
    <3>1. TAKE t \in Token
    <3>2. answered[t] \in Nat /\ answered[t] <= disk.counter
      BY AnsweredFacts
    <3> QED BY <1>2, <1>4, <3>2
  <2>3. \A j \in taken' : j <= counter
    <3>1. TAKE j \in taken'
    <3>2. j \in Nat /\ j <= disk.counter
      BY <1>2, <1>4 DEF IInv, Range
    <3> QED BY <1>4, <3>2
  <2> QED BY <1>1, <1>4, <2>1, <2>2, <2>3 DEF Range, Listed, OnDisk
<1>11. Pending'
  <2>1. composing' = composing /\ queueing' = queueing /\ Free'
    BY DEF callers, Free
  <2>2. ASSUME composing # 0 PROVE Unused(composing)' /\ composing # queueing.id
    <3>1. composing \in Local /\ Unused(composing) /\ composing # queueing.id
      BY <2>2 DEF IInv, TypeOK, Pending
    <3>2. composing <= counter /\ idx[composing] = NoEntry
      BY <1>3, <1>4, <3>1 DEF Unused, Listed
    <3> QED BY <1>1, <1>2, <2>1, <3>1, <3>2 DEF Unused, Listed, OnDisk
  <2> QED BY <2>1, <2>2 DEF Pending
<1>12. Keys'
  <2>1. Free' /\ answered' = answered
    BY <1>2 DEF callers, Free
  <2>2. \A i \in Id : idx[i] = index[i] \/ (idx[i] = NoEntry /\ idx[i].key = NoToken)
    BY <1>3, EntryFacts
  <2> QED BY <1>1, <2>1, <2>2, ListedKeys DEF Keys, OnDisk, Listed
<1> QED BY <1>5, <1>6, <1>7, <1>8, <1>9, <1>10, <1>11, <1>12 DEF IInv

\* Bundles go and messages are withdrawn: all that the disk still lists may stay.
LEMMA WithdrawStep ==
    ASSUME IInv, Free, NEW gone \in SUBSET Id,
           file' \in [Id -> Content \cup {Missing}],
           \A i \in Id \ gone : file'[i] = file[i],
           Withdraw(gone),
           \/ UNCHANGED <<index, counter, disk, callers, dirty>>
           \/ Load
           \/ gone = Id /\ Unsaved(Empty, counter) /\ UNCHANGED callers
    PROVE  IInv'
<1>1. /\ kept' = kept \ gone /\ withdrawn' = withdrawn \cup gone
      /\ acked' = [i \in Foreign |-> IF i \in gone THEN Missing ELSE acked[i]]
      /\ UNCHANGED <<held, answered, taken, disk>>
  BY DEF Withdraw, Load, Unsaved
<1>2. index' \in {index, disk.index, Empty} /\ counter' \in {counter, disk.counter}
  BY DEF Load, Unsaved
<1>3. index' = Empty => gone = Id \/ index' \in {index, disk.index}
  BY DEF Load, Unsaved
<1>4. Empty \in [Id -> Entry] /\ \A i \in Id : Empty[i] = NoEntry
  BY EntryFacts DEF Empty
<1>5. composing' \in {0, composing} /\ Free'
  BY DEF Load, callers, Free
<1>6. TypeOK'
  <2>1. dirty' \in BOOLEAN
    BY DEF Load, Unsaved, IInv, TypeOK
  <2> QED BY <1>1, <1>2, <1>4, <1>5, <2>1 DEF IInv, TypeOK, Free
<1>7. Matches'
  BY <1>1, <1>2, <1>4 DEF IInv, Matches, Listed, OnDisk
<1>8. Bundles'
  BY <1>1 DEF IInv, Bundles, OnDisk
<1>9. ASSUME NEW i \in kept'
      PROVE  i \in Id \ gone /\ i \notin withdrawn' /\ index'[i] # NoEntry
                /\ index'[i].server = index[i].server
  <2>1. i \in kept /\ i \in Id \ gone /\ Listed(i) /\ i \notin withdrawn'
    BY <1>1 DEF IInv, TypeOK, KeptListed
  <2>2. index' \in {index, disk.index}
    BY <1>2, <1>3, <2>1
  <2> QED BY <2>1, <2>2 DEF IInv, Matches, Listed, OnDisk
<1>10. KeptListed'
  BY <1>9 DEF KeptListed, Listed
<1>11. AckedKept'
  <2> SUFFICES ASSUME NEW i \in Foreign, acked'[i] # Missing
               PROVE  i \in kept' /\ file'[i] = acked'[i] /\ index'[i].server
    BY DEF AckedKept
  <2>1. i \in Id \ gone /\ acked'[i] = acked[i]
    BY <1>1, IdFacts
  <2>2. i \in kept /\ file[i] = acked[i] /\ index[i].server
    BY <2>1 DEF IInv, AckedKept
  <2> QED BY <1>1, <1>9, <2>1, <2>2
<1>12. Range'
  BY <1>1, <1>2, <1>4, IdFacts, IdAssumption DEF IInv, TypeOK, Range, Listed, OnDisk
<1>13. Pending'
  <2>1. ASSUME composing' # 0 PROVE Unused(composing)' /\ composing' # queueing'.id
    <3>1. composing' = composing /\ composing \in Local /\ Unused(composing)
      BY <1>5, <2>1 DEF IInv, TypeOK, Pending
    <3>2. index'[composing] = NoEntry
      BY <1>2, <1>4, <3>1, IdFacts DEF Unused, Listed, OnDisk
    <3>3. queueing'.id = 0
      BY <1>5 DEF Free, NoRequest
    <3> QED BY <1>1, <2>1, <3>1, <3>2, <3>3 DEF Unused, Listed, OnDisk
  <2> QED BY <1>5, <2>1 DEF Pending
<1>14. Keys'
  BY <1>1, <1>5 DEF IInv, Keys, OnDisk
<1>15. FailuresLeaveNoTrace'
  BY DEF IInv, FailuresLeaveNoTrace, Load, Unsaved
<1> QED BY <1>6, <1>7, <1>8, <1>10, <1>11, <1>12, <1>13, <1>14, <1>15 DEF IInv

LEMMA DeleteStep ==
    ASSUME IInv, NEW i \in Id, Delete(i)
    PROVE  IInv'
<1>1. /\ Free /\ Withdraw({i}) /\ file' = [file EXCEPT ![i] = Missing]
      /\ {i} \in SUBSET Id
  BY DEF Delete
<1>2. /\ file' \in [Id -> Content \cup {Missing}]
      /\ \A j \in Id \ {i} : file'[j] = file[j]
  BY <1>1 DEF IInv, TypeOK
<1>3. CASE Saved([index EXCEPT ![i] = NoEntry], counter) /\ UNCHANGED callers
  <2>1. [index EXCEPT ![i] = NoEntry]
          = [j \in Id |-> IF j \in {i} THEN NoEntry ELSE index[j]]
    BY DEF IInv, TypeOK
  <2> QED BY <1>1, <1>2, <1>3, <2>1, RemovalStep
<1>4. CASE RolledBack(i, NoEntry) /\ UNCHANGED callers
  BY <1>1, <1>2, <1>4, WithdrawStep DEF RolledBack
<1>5. CASE Load
  BY <1>1, <1>2, <1>5, WithdrawStep
<1> QED BY <1>3, <1>4, <1>5 DEF Delete

LEMMA ClearStep == IInv /\ Clear => IInv'
<1> SUFFICES ASSUME IInv, Clear PROVE IInv'
  OBVIOUS
<1>1. Free /\ Withdraw(Id)
  BY DEF Clear
<1>2. /\ file' \in [Id -> Content \cup {Missing}]
      /\ \A j \in Id \ Id : file'[j] = file[j]
  BY DEF Clear, IInv, TypeOK
<1>3. CASE Saved(Empty, counter) /\ UNCHANGED callers
  <2>1. Empty = [j \in Id |-> IF j \in Id THEN NoEntry ELSE index[j]]
    BY DEF Empty
  <2> QED BY <1>1, <1>2, <1>3, <2>1, RemovalStep
<1>4. CASE Unsaved(Empty, counter) /\ UNCHANGED callers
  BY <1>1, <1>2, <1>4, WithdrawStep
<1>5. CASE Load
  BY <1>1, <1>2, <1>5, WithdrawStep
<1> QED BY <1>3, <1>4, <1>5 DEF Clear

LEMMA RestartStep == IInv /\ Restart => IInv'
<1> SUFFICES ASSUME IInv, Restart PROVE IInv'
  OBVIOUS
<1>1. MoreBundles
  BY DEF Restart, MoreBundles, IInv, TypeOK
<1> QED BY <1>1, LoadStep DEF Restart

LEMMA NextStep == IInv /\ [Next]_vars => IInv'
<1> SUFFICES ASSUME IInv, [Next]_vars PROVE IInv'
  OBVIOUS
<1>1. CASE Compose \/ Add \/ Queue \/ Clear \/ Restart
  BY <1>1, ComposeStep, AddStep, QueueStep, ClearStep, RestartStep
<1>2. CASE \E t \in Token : Repeat(t) \/ Request(t)
  BY <1>2, RepeatStep, RequestStep
<1>3. CASE \E i \in Id, c \in Content : StoreIncoming(i, c)
  BY <1>3, StoreIncomingStep
<1>4. CASE \E i \in Foreign : Import(i) \/ ImportFails(i)
  BY <1>4, ImportKnownStep, ImportNewStep, ImportFailsStep DEF Import
<1>5. CASE \E i \in Id : SetStatus(i) \/ ServerPath(i) \/ Delete(i)
  BY <1>5, SetStatusStep, ServerPathStep, DeleteStep
<1>6. CASE UNCHANGED vars
  <2>1. MoreBundles
    BY <1>6 DEF vars, store, MoreBundles, IInv, TypeOK
  <2> QED BY <1>6, <2>1, TornStep DEF vars, store, callers
<1> QED BY <1>1, <1>2, <1>3, <1>4, <1>5, <1>6 DEF Next

LEMMA Invariant == Spec => []IInv
BY InitStep, NextStep, PTL DEF Spec

----------------------------------------------------------------------------
(* The promises. *)

\* Index, bundles and counter keep their types: store.py as a whole.
THEOREM TypeCorrect == Spec => []TypeOK
<1>1. IInv => TypeOK
  BY DEF IInv
<1> QED BY <1>1, Invariant, PTL

\* What was reported as stored is on disk, listed and with its bundle, whatever
\* fails and whenever the program dies: add, import_server, store_incoming.
THEOREM NothingIsLost == Spec => []PromisesKept
<1>1. IInv => PromisesKept
  <2> SUFFICES ASSUME IInv, NEW i \in kept
               PROVE  disk.index[i] # NoEntry /\ file[i] # Missing
    BY DEF PromisesKept
  <2>1. i \in Id /\ Listed(i) /\ i \notin withdrawn
    BY DEF IInv, TypeOK, KeptListed
  <2> QED BY <2>1 DEF IInv, Matches, Bundles, OnDisk
<1> QED BY <1>1, Invariant, PTL

\* The server may delete what it was told is stored: import_server, store_incoming.
THEOREM ServerMayForget == Spec => []AckedIsSafe
<1>1. IInv => AckedIsSafe
  <2> SUFFICES ASSUME IInv, NEW i \in Foreign, acked[i] # Missing
               PROVE  file[i] = acked[i] /\ disk.index[i].server
    BY DEF AckedIsSafe
  <2>1. i \in kept /\ file[i] = acked[i] /\ index[i].server
    BY DEF IInv, AckedKept
  <2>2. i \in Id /\ Listed(i)
    BY <2>1, IdFacts DEF IInv, KeptListed
  <2> QED BY <2>1, <2>2 DEF IInv, Matches
<1> QED BY <1>1, Invariant, PTL

\* A failed call leaves memory as the disk has it, but for the changes that are
\* not taken back: the rollbacks of add, import_server, delete.
THEOREM FailuresAreUndone == Spec => []FailuresLeaveNoTrace
<1>1. IInv => FailuresLeaveNoTrace
  BY DEF IInv
<1> QED BY <1>1, Invariant, PTL

\* A step of queue_remote_text answers a token anew only if its message is gone.
LEMMA AnswersStay ==
    ASSUME IInv, Next, NEW t \in Token, answered'[t] # answered[t]
    PROVE  answered[t] \notin kept
<1> SUFFICES ASSUME answered[t] \in kept PROVE FALSE
  OBVIOUS
<1> DEFINE a == answered[t]
<1>1. a \in Id /\ Listed(a) /\ index[a].key = t
  BY ListedKeys DEF IInv, TypeOK, KeptListed
<1>2. PICK u \in Token : Repeat(u) \/ (Queue /\ queueing.key = u /\ ~UNCHANGED answered)
  <2>1. CASE Compose \/ Add \/ Clear \/ Restart
    BY <2>1 DEF Compose, Add, Clear, Restart, Torn, Dies, Withdraw, history
  <2>2. CASE Queue
    BY <2>2 DEF Queue, IInv, TypeOK, Free
  <2>3. CASE \E v \in Token : Repeat(v) \/ Request(v)
    BY <2>3 DEF Request
  <2>4. CASE \E i \in Id, c \in Content : StoreIncoming(i, c)
    BY <2>4 DEF StoreIncoming, Arrived, Torn, Dies, history
  <2>5. CASE \E i \in Foreign : Import(i) \/ ImportFails(i)
    BY <2>5 DEF Import, ImportKnown, ImportNew, ImportFails, Acknowledge, Torn, Dies, history
  <2>6. CASE \E i \in Id : SetStatus(i) \/ ServerPath(i) \/ Delete(i)
    BY <2>6 DEF SetStatus, ServerPath, Delete, Withdraw, history
  <2> QED BY <2>1, <2>2, <2>3, <2>4, <2>5, <2>6 DEF Next
<1>3. CASE Repeat(u)
  <2>1. PICK i \in Id : index[i].key = u /\ answered' = [answered EXCEPT ![u] = i]
    BY <1>3 DEF Repeat
  <2>2. u = t /\ i # a
    BY <2>1 DEF IInv, TypeOK
  <2> QED BY <1>1, <2>1, <2>2, ListedKeys, ContentAssumption
<1>4. CASE Queue /\ queueing.key = u /\ ~UNCHANGED answered
  <2>1. ~Free /\ answered' = [answered EXCEPT ![u] = queueing.id]
    BY <1>4 DEF Queue, Dies, history
  <2>2. u = t
    BY <2>1 DEF IInv, TypeOK
  <2> QED BY <1>1, <1>4, <2>1, <2>2, ListedKeys
<1> QED BY <1>2, <1>3, <1>4

\* A repeated request never makes a second message while the first is kept:
\* queue_remote_text.
THEOREM OneMessagePerRequest == Spec => RequestsQueuedOnce
<1>1. IInv /\ [Next]_vars =>
        [\A t \in Token : answered'[t] # answered[t] => answered[t] \notin kept]_vars
  BY AnswersStay
<1> QED BY <1>1, Invariant, PTL DEF Spec, RequestsQueuedOnce

\* A step that takes an id takes one above the saved counter: next_id.
LEMMA IdsGoUp ==
    ASSUME IInv, Next
    PROVE  /\ composing' \notin {0, composing} => composing' \notin taken
           /\ queueing' # queueing => queueing'.id \notin taken
<1>1. ASSUME NEW k \in Local, k = counter + 1 PROVE k \notin taken
  BY <1>1, IdFacts, IdAssumption DEF IInv, TypeOK, Range
<1>2. 0 \notin taken /\ NoRequest.id = 0
  BY IdFacts DEF IInv, TypeOK, NoRequest
<1>3. CASE Compose \/ Add \/ Queue \/ Clear \/ Restart
  BY <1>1, <1>2, <1>3 DEF Compose, Mints, Add, Queue, Clear, Restart, Torn, Dies, Load, callers
<1>4. CASE \E t \in Token : Repeat(t) \/ Request(t)
  BY <1>1, <1>4 DEF Repeat, Request, Mints, callers
<1>5. CASE \E i \in Id, c \in Content : StoreIncoming(i, c)
  BY <1>2, <1>5 DEF StoreIncoming, Arrived, Dies, Load, callers
<1>6. CASE \E i \in Foreign : Import(i) \/ ImportFails(i)
  BY <1>2, <1>6
     DEF Import, ImportKnown, ImportNew, ImportFails, Acknowledge, Dies, Load, callers
<1>7. CASE \E i \in Id : SetStatus(i) \/ ServerPath(i) \/ Delete(i)
  BY <1>2, <1>7 DEF SetStatus, ServerPath, Delete, Load, callers
<1> QED BY <1>3, <1>4, <1>5, <1>6, <1>7 DEF Next

\* No id is given out twice, also when the counter cannot be saved: next_id.
THEOREM IdsAreUsedOnce == Spec => IdsAreNew
<1>1. IInv /\ [Next]_vars =>
        [/\ composing' \notin {0, composing} => composing' \notin taken
         /\ queueing' # queueing => queueing'.id \notin taken]_vars
  BY IdsGoUp
<1> QED BY <1>1, Invariant, PTL DEF Spec, IdsAreNew

----------------------------------------------------------------------------
(* The dial: as long as nobody has crossed anybody, one at a time is away   *)
(* from the calling channel, and it knows the way back.                     *)

Task == [name : {"scanner-tune", "scanner-home"}, to : Channel]
Sweep == [at : {"off", "reading", "looking", "tuning", "returning"},
          home : Channel \cup {Nowhere}, left : SUBSET Channel]

RadioTypes ==
    /\ split \in BOOLEAN
    /\ dial \in Channel /\ previous \in Channel \cup {Nowhere}
    /\ session \in [Session -> {"none", "preparing", "open", "payload", "over"}]
    /\ thread \in [Session -> {"off", "queued", "telling", "refused"} \cup Radio!Holding]
    /\ on \in [Session -> Channel \cup {Nowhere}]
    /\ restoring \in [Session \cup {Ui} -> {"no", "tune", "clear"}]
    /\ sweep \in Sweep /\ scanner \in Channel \cup {Nowhere} /\ tasks \subseteq Task
    /\ crossed \in BOOLEAN /\ lost \in BOOLEAN

\* The payload threads come one after the other.
HasTurn(s) == thread[s] \in Radio!Holding \cup {"refused"}
OneTurn == \A s, r \in Session : HasTurn(s) /\ HasTurn(r) => s = r

\* What it means that nobody crosses anybody.
Carrying(s) == thread[s] = "working" /\ on[s] # Nowhere
Apart ==
    /\ previous # Nowhere => sweep.at = "off" /\ scanner = Nowhere /\ tasks = {}
    /\ sweep.at # "off" => scanner = Nowhere /\ tasks = {}
    /\ \A t, u \in tasks : t = u
    /\ scanner # Nowhere => \A t \in tasks : t.name # "scanner-home"
    /\ previous # Nowhere /\ dial # previous =>
         \A a \in Session \cup {Ui} : restoring[a] # "clear"
    /\ \A s \in Session : Carrying(s) =>
         /\ \A a \in Session \cup {Ui} : restoring[a] = "no"
         /\ split \/ \A r \in Session : session[r] = "preparing" => Way[r] = Nowhere

\* Each remembers the calling channel or nothing, and who is away remembers it.
KnowHome ==
    /\ previous \in {Nowhere, Home} /\ scanner \in {Nowhere, Home}
    /\ sweep.home = IF sweep.at \in {"off", "reading"} THEN Nowhere ELSE Home
    /\ \A t \in tasks : t.name = "scanner-home" => t.to = Home
    /\ scanner = Nowhere => \A t \in tasks : t.name = "scanner-home"
    /\ Radio!HomeIsRemembered

\* A payload away from the calling channel is what has the radio.
OnItsWay == \A s \in Session : on[s] # Nowhere =>
    thread[s] = "working" /\ dial = on[s] /\ previous = Home

Alone == Apart /\ (lost \/ (KnowHome /\ OnItsWay))
RadioInv == RadioTypes /\ OneTurn /\ (crossed \/ Alone)

----------------------------------------------------------------------------

\* Every step keeps the types.
LEMMA RadioTypesKept ==
    ASSUME Radio!RadioAssumption, RadioTypes, Radio!Step, crossed' \in BOOLEAN
    PROVE  RadioTypes'
  <1> USE DEF Radio!Holding, Radio!Goto, Radio!Becomes, Radio!Restores, Radio!Counted,
              Radio!CatFails, Radio!sessions, Radio!others
  <1>1. dial \in Channel /\ Home \in Channel /\ Ui \in Session \cup {Ui}
        /\ Radio!CallingChannel \in Channel
    BY DEF RadioTypes, Radio!RadioAssumption, Radio!CallingChannel
  <1>2. ASSUME NEW s \in Session, Radio!Goes(s) \/ (Radio!Send(s) /\ Way[s] # Nowhere)
        PROVE  Way[s] \in Channel
    BY <1>2 DEF Radio!RadioAssumption, Radio!Goes
  <1>3. ASSUME NEW c \in Channel, Radio!Moved(c) \/ Radio!MoveFails(c)
        PROVE  dial' \in Channel /\ previous' \in Channel \cup {Nowhere}
    BY <1>1, <1>3 DEF Radio!Moved, Radio!MoveFails, RadioTypes
  <1>4. ASSUME NEW s \in Session, Radio!Send(s) PROVE RadioTypes'
    <2>1. /\ UNCHANGED <<split, thread, on, sweep, scanner, tasks, lost>>
          /\ session' \in [Session -> {"none", "preparing", "open", "payload", "over"}]
          /\ restoring' \in [Session \cup {Ui} -> {"no", "tune", "clear"}]
      BY <1>4 DEF Radio!Send, RadioTypes
    <2>2. dial' \in Channel /\ previous' \in Channel \cup {Nowhere}
      <3>1. CASE UNCHANGED <<dial, previous>>
        BY <3>1 DEF RadioTypes
      <3>2. CASE ~UNCHANGED <<dial, previous>>
        <4>1. Way[s] # Nowhere /\ (Radio!Moved(Way[s]) \/ Radio!MoveFails(Way[s]))
          BY <1>4, <3>2 DEF Radio!Send
        <4>2. QED  BY <1>2, <1>3, <1>4, <4>1
      <3>3. QED  BY <3>1, <3>2
    <2>3. QED  BY <2>1, <2>2 DEF RadioTypes
  <1>5. ASSUME NEW s \in Session, Radio!Qsy(s) PROVE RadioTypes'
    <2>1. /\ UNCHANGED <<split, session, sweep, scanner, tasks, lost>>
          /\ thread' \in [Session -> {"off", "queued", "telling", "refused"}
                                       \cup Radio!Holding]
          /\ restoring' \in [Session \cup {Ui} -> {"no", "tune", "clear"}]
      BY <1>5 DEF Radio!Qsy, RadioTypes
    <2>2. dial' \in Channel /\ previous' \in Channel \cup {Nowhere}
          /\ on' \in [Session -> Channel \cup {Nowhere}]
      <3>1. CASE ~Radio!Goes(s)
        BY <1>5, <3>1 DEF Radio!Qsy, RadioTypes
      <3>2. CASE Radio!Goes(s)
        <4>1. Radio!Moved(Way[s]) \/ Radio!MoveFails(Way[s])
          BY <1>5, <3>2 DEF Radio!Qsy
        <4>2. Way[s] \in Channel
          BY <1>2, <3>2
        <4>3. on' = on \/ on' = [on EXCEPT ![s] = Way[s]]
          BY <1>5 DEF Radio!Qsy
        <4>4. QED  BY <1>3, <4>1, <4>2, <4>3 DEF RadioTypes
      <3>3. QED  BY <3>1, <3>2
    <2>3. QED  BY <2>1, <2>2 DEF RadioTypes
  <1>6. ASSUME NEW s \in Session,
               Radio!Announce(s) \/ Radio!Offered(s) \/ Radio!Start(s) \/ Radio!Release(s)
        PROVE  RadioTypes'
    BY <1>6 DEF Radio!Announce, Radio!Offered, Radio!Start, Radio!Release, RadioTypes
  <1>7. ASSUME NEW s \in Session, NEW a \in Session \cup {Ui}, Radio!Ended(s, a)
        PROVE  /\ session' \in [Session -> {"none", "preparing", "open", "payload", "over"}]
               /\ restoring' \in [Session \cup {Ui} -> {"no", "tune", "clear"}]
    BY <1>7 DEF Radio!Ended, RadioTypes
  <1>8. ASSUME NEW s \in Session, Radio!End(s) PROVE RadioTypes'
    BY <1>1, <1>7, <1>8 DEF Radio!End, RadioTypes
  <1>9. ASSUME NEW s \in Session, Radio!Tell(s) PROVE RadioTypes'
    <2>1. /\ UNCHANGED <<split, dial, previous, on, sweep, scanner, tasks, lost>>
          /\ thread' = [thread EXCEPT ![s] = "off"]
      BY <1>9 DEF Radio!Tell
    <2>2. /\ session' \in [Session -> {"none", "preparing", "open", "payload", "over"}]
          /\ restoring' \in [Session \cup {Ui} -> {"no", "tune", "clear"}]
      BY <1>7, <1>9 DEF Radio!Tell, RadioTypes
    <2>3. QED  BY <2>1, <2>2 DEF RadioTypes
  <1>10. ASSUME NEW s \in Session, Radio!Acquire(s) PROVE RadioTypes'
    BY <1>10 DEF Radio!Acquire, RadioTypes
  <1>11. ASSUME NEW s \in Session, Radio!NotThere(s) \/ Radio!Finish(s) PROVE RadioTypes'
    BY <1>11 DEF Radio!NotThere, Radio!Finish, RadioTypes
  <1>12. ASSUME NEW a \in Session \cup {Ui}, Radio!Retune(a) \/ Radio!Forget(a)
         PROVE  RadioTypes'
    BY <1>12 DEF Radio!Retune, Radio!Forget, RadioTypes
  <1>13. CASE Radio!StartSweep \/ Radio!ReadHome \/ Radio!LookRound \/ Radio!Return
    <2>1. UNCHANGED <<split, previous, session, thread, on, restoring, scanner, tasks>>
      BY <1>13 DEF Radio!StartSweep, Radio!ReadHome, Radio!LookRound, Radio!Return
    <2>2. dial' \in Channel /\ lost' \in BOOLEAN
      BY <1>13 DEF Radio!StartSweep, Radio!ReadHome, Radio!LookRound, Radio!Return,
                   RadioTypes, Sweep
    <2>3. sweep' \in Sweep
      <3>1. CASE Radio!StartSweep
        BY <3>1 DEF Radio!StartSweep, Radio!NoSweep, Radio!Elsewhere, Sweep
      <3>2. CASE Radio!ReadHome \/ Radio!LookRound
        BY <3>2 DEF Radio!ReadHome, Radio!LookRound, RadioTypes, Sweep
      <3>3. CASE Radio!Return
        BY <3>3 DEF Radio!Return, Radio!NoSweep, Sweep
      <3>4. QED  BY <1>13, <3>1, <3>2, <3>3
    <2>4. QED  BY <2>1, <2>2, <2>3 DEF RadioTypes
  <1>14. ASSUME NEW c \in Channel, Radio!SweepOn(c) PROVE RadioTypes'
    <2>1. UNCHANGED <<split, previous, session, thread, on, restoring, scanner, tasks, lost>>
      BY <1>14 DEF Radio!SweepOn
    <2>2. dial' \in Channel /\ sweep' \in Sweep
      BY <1>14 DEF Radio!SweepOn, RadioTypes, Sweep
    <2>3. QED  BY <2>1, <2>2 DEF RadioTypes
  <1>15. CASE Radio!StartScanner \/ Radio!StopScanner
    <2>1. UNCHANGED <<split, dial, previous, session, thread, on, restoring, sweep, lost>>
      BY <1>15 DEF Radio!StartScanner, Radio!StopScanner
    <2>2. scanner' \in Channel \cup {Nowhere} /\ tasks' \subseteq Task
      BY <1>15 DEF Radio!StartScanner, Radio!StopScanner, RadioTypes, Task
    <2>3. QED  BY <2>1, <2>2 DEF RadioTypes
  <1>16. ASSUME NEW c \in Channel, Radio!TickScanner(c) PROVE RadioTypes'
    BY <1>16 DEF Radio!TickScanner, RadioTypes, Task
  <1>17. ASSUME NEW t \in tasks, Radio!TuneScanner(t) PROVE RadioTypes'
    <2>1. UNCHANGED <<split, previous, session, thread, on, restoring, sweep, scanner>>
      BY <1>17 DEF Radio!TuneScanner
    <2>2. t \in Task /\ t.to \in Channel
      BY DEF RadioTypes, Task
    <2>3. dial' \in Channel /\ tasks' \subseteq Task /\ lost' \in BOOLEAN
      BY <1>17, <2>2 DEF Radio!TuneScanner, RadioTypes
    <2>4. QED  BY <2>1, <2>3 DEF RadioTypes
  <1>18. QED
    BY <1>4, <1>5, <1>6, <1>8, <1>9, <1>10, <1>11, <1>12, <1>13, <1>14, <1>15, <1>16, <1>17
       DEF Radio!Step

\* The lock and the busy flag let one payload thread at a time to the radio.
LEMMA OneTurnKept ==
    ASSUME RadioTypes, OneTurn, Radio!Step PROVE OneTurn'
  <1> USE DEF Radio!Goto, Radio!Holding, HasTurn
  <1>1. CASE UNCHANGED thread
    BY <1>1 DEF OneTurn
  <1>2. ASSUME NEW s \in Session, Radio!Acquire(s) PROVE OneTurn'
    <2>1. \A r \in Session : ~HasTurn(r)
      BY <1>2 DEF Radio!Acquire, Radio!Locked, Radio!PayloadActive
    <2>2. PICK p : thread' = [thread EXCEPT ![s] = p]
      BY <1>2 DEF Radio!Acquire
    <2>3. QED  BY <2>1, <2>2 DEF OneTurn, RadioTypes
  <1>3. ASSUME NEW s \in Session, NEW p, thread' = [thread EXCEPT ![s] = p],
               HasTurn(s) \/ p \in {"queued", "off"}
        PROVE  OneTurn'
    BY <1>3 DEF OneTurn, RadioTypes
  <1>4. ASSUME NEW s \in Session,
               \/ Radio!Start(s) \/ Radio!Qsy(s) \/ Radio!NotThere(s) \/ Radio!Finish(s)
               \/ Radio!Release(s) \/ Radio!Tell(s)
        PROVE  OneTurn'
    <2>1. HasTurn(s) \/ Radio!Start(s) \/ Radio!Tell(s)
      BY <1>4 DEF Radio!Qsy, Radio!NotThere, Radio!Finish, Radio!Release
    <2>2. CASE Radio!Start(s) \/ Radio!Tell(s)
      BY <1>3, <2>2 DEF Radio!Start, Radio!Tell
    <2>3. CASE ~(Radio!Start(s) \/ Radio!Tell(s))
      <3>1. PICK p : thread' = [thread EXCEPT ![s] = p]
        BY <1>4, <2>3 DEF Radio!Qsy, Radio!NotThere, Radio!Finish, Radio!Release
      <3>2. QED  BY <1>3, <2>1, <2>3, <3>1
    <2>4. QED  BY <2>2, <2>3
  <1>5. ASSUME NEW s \in Session,
               Radio!Send(s) \/ Radio!Announce(s) \/ Radio!Offered(s) \/ Radio!End(s)
        PROVE  UNCHANGED thread
    BY <1>5 DEF Radio!Send, Radio!Announce, Radio!Offered, Radio!End
  <1>6. ASSUME NEW a, Radio!Retune(a) \/ Radio!Forget(a) PROVE UNCHANGED thread
    BY <1>6 DEF Radio!Retune, Radio!Forget
  <1>7. ASSUME NEW c, Radio!SweepOn(c) \/ Radio!TickScanner(c) \/ Radio!TuneScanner(c)
        PROVE  UNCHANGED thread
    BY <1>7 DEF Radio!SweepOn, Radio!TickScanner, Radio!TuneScanner, Radio!sessions
  <1>8. ASSUME Radio!StartSweep \/ Radio!ReadHome \/ Radio!LookRound \/ Radio!Return
               \/ Radio!StartScanner \/ Radio!StopScanner
        PROVE  UNCHANGED thread
    BY <1>8 DEF Radio!StartSweep, Radio!ReadHome, Radio!LookRound, Radio!Return,
                Radio!StartScanner, Radio!StopScanner, Radio!sessions
  <1>9. QED
    BY <1>1, <1>2, <1>4, <1>5, <1>6, <1>7, <1>8 DEF Radio!Step

\* The operator has been told, and nothing untells him.
LEMMA LostStays == ASSUME Radio!Step, lost PROVE lost'
  <1>1. ASSUME NEW s \in Session,
               \/ Radio!Send(s) \/ Radio!Announce(s) \/ Radio!Offered(s) \/ Radio!Start(s)
               \/ Radio!End(s) \/ Radio!Acquire(s) \/ Radio!Qsy(s) \/ Radio!NotThere(s)
               \/ Radio!Finish(s) \/ Radio!Release(s) \/ Radio!Tell(s)
        PROVE  lost'
    BY <1>1 DEF Radio!Send, Radio!Announce, Radio!Offered, Radio!Start, Radio!End,
                Radio!Acquire, Radio!Qsy, Radio!NotThere, Radio!Finish, Radio!Release,
                Radio!Tell
  <1>2. ASSUME NEW a, Radio!Retune(a) \/ Radio!Forget(a) \/ Radio!SweepOn(a)
                      \/ Radio!TickScanner(a) \/ Radio!TuneScanner(a)
        PROVE  lost'
    BY <1>2 DEF Radio!Retune, Radio!Forget, Radio!SweepOn, Radio!TickScanner,
                Radio!TuneScanner
  <1>3. CASE Radio!StartSweep \/ Radio!ReadHome \/ Radio!LookRound \/ Radio!Return
             \/ Radio!StartScanner \/ Radio!StopScanner
    BY <1>3 DEF Radio!StartSweep, Radio!ReadHome, Radio!LookRound, Radio!Return,
                Radio!StartScanner, Radio!StopScanner
  <1>4. QED  BY <1>1, <1>2, <1>3 DEF Radio!Step

\* The steps that leave the dial, and what is remembered, alone.
LEMMA QuietSteps ==
    ASSUME RadioTypes, KnowHome, OnItsWay,
           UNCHANGED <<dial, previous, sweep, scanner, tasks>>,
           \A s \in Session : on'[s] # Nowhere =>
               on'[s] = on[s] /\ (thread[s] = "working" => thread'[s] = "working")
    PROVE  KnowHome' /\ OnItsWay'
  BY DEF KnowHome, OnItsWay, Radio!HomeIsRemembered

\* A session that moves the radio finds it at home, or knows that home already.
LEMMA MovesKnowHome ==
    ASSUME Radio!RadioAssumption, RadioTypes, Apart, KnowHome,
           previous' # Nowhere, UNCHANGED <<sweep, scanner, tasks>>, Apart'
    PROVE  Radio!CallingChannel = Home
  BY DEF Apart, KnowHome, Radio!HomeIsRemembered, Radio!CallingChannel, Radio!RadioAssumption

\* Whoever moves the dial remembers the calling channel for the way home.
LEMMA MoveKeeps ==
    ASSUME Radio!RadioAssumption, RadioTypes, Apart, KnowHome, Apart',
           NEW c \in Channel, Radio!Moved(c) \/ Radio!MoveFails(c),
           UNCHANGED <<sweep, scanner, tasks>>
    PROVE  KnowHome' /\ (UNCHANGED <<dial, previous>> \/ previous' = Home)
  <1>1. CASE UNCHANGED <<dial, previous>>
    BY <1>1 DEF KnowHome, Radio!HomeIsRemembered
  <1>2. CASE ~UNCHANGED <<dial, previous>>
    <2>1. previous' = Radio!CallingChannel
      BY <1>2 DEF Radio!Moved, Radio!MoveFails
    <2>2. Radio!CallingChannel # Nowhere
      BY DEF Radio!CallingChannel, RadioTypes, Radio!RadioAssumption
    <2>3. previous' = Home
      BY <2>1, <2>2, MovesKnowHome
    <2>4. QED  BY <2>3 DEF KnowHome, Radio!HomeIsRemembered
  <1>3. QED  BY <1>1, <1>2

\* A message that is sent at once may move the dial, under nobody's payload.
LEMMA SendStays ==
    ASSUME Radio!RadioAssumption, RadioTypes, Apart, KnowHome, OnItsWay, Apart', RadioTypes',
           NEW s \in Session, Radio!Send(s)
    PROVE  KnowHome' /\ OnItsWay'
  <1>1. UNCHANGED <<split, thread, on, sweep, scanner, tasks>>
    BY DEF Radio!Send, Radio!others
  <1>2. CASE UNCHANGED <<dial, previous>>
    BY <1>1, <1>2, QuietSteps
  <1>3. CASE ~UNCHANGED <<dial, previous>>
    <2>1. /\ ~split /\ Way[s] # Nowhere
          /\ \/ Radio!Moved(Way[s]) /\ Radio!Becomes(s, "preparing")
             \/ Radio!MoveFails(Way[s]) /\ Radio!Restores(Ui)
      BY <1>3 DEF Radio!Send
    <2>2. Way[s] \in Channel
      BY <2>1 DEF Radio!RadioAssumption
    <2>3. KnowHome'
      BY <1>1, <2>1, <2>2, MoveKeeps
    <2>4. session'[s] = "preparing" \/ restoring'[Ui] = "tune"
      BY <2>1 DEF Radio!Becomes, Radio!Restores, RadioTypes
    <2>5. \A r \in Session : ~Carrying(r)'
      BY <1>1, <2>1, <2>4 DEF Apart
    <2>6. OnItsWay'
      BY <1>1, <2>5 DEF OnItsWay, Carrying
    <2>7. QED  BY <2>3, <2>6
  <1>4. QED  BY <1>2, <1>3

\* A payload thread that has its turn goes to the working channel.
LEMMA QsyStays ==
    ASSUME Radio!RadioAssumption, RadioTypes, OneTurn, Apart, KnowHome, OnItsWay, Apart',
           NEW s \in Session, Radio!Qsy(s)
    PROVE  KnowHome' /\ OnItsWay'
  <1>1. thread[s] = "ready" /\ UNCHANGED <<split, session, sweep, scanner, tasks>>
    BY DEF Radio!Qsy, Radio!others
  <1>2. \A r \in Session : on[r] = Nowhere
    BY <1>1 DEF OnItsWay, OneTurn, HasTurn, Radio!Holding
  <1>3. CASE ~Radio!Goes(s)
    <2>1. UNCHANGED <<dial, previous, on>>
      BY <1>3 DEF Radio!Qsy
    <2>2. QED  BY <1>1, <1>2, <2>1, QuietSteps
  <1>4. CASE Radio!Goes(s)
    <2>1. Way[s] \in Channel /\ Way[s] # Nowhere
      BY <1>4 DEF Radio!Goes, Radio!RadioAssumption
    <2>2. \/ /\ Radio!Moved(Way[s]) /\ on' = [on EXCEPT ![s] = Way[s]]
             /\ Radio!Goto(s, "working")
          \/ Radio!MoveFails(Way[s]) /\ UNCHANGED on
      BY <1>4 DEF Radio!Qsy
    <2>3. KnowHome'
      BY <1>1, <2>1, <2>2, MoveKeeps
    <2>4. OnItsWay'
      <3>1. CASE Radio!MoveFails(Way[s]) /\ UNCHANGED on
        BY <1>2, <3>1 DEF OnItsWay
      <3>2. CASE /\ Radio!Moved(Way[s]) /\ on' = [on EXCEPT ![s] = Way[s]]
                 /\ Radio!Goto(s, "working")
        <4>1. previous' = Radio!CallingChannel /\ dial' = Way[s]
              /\ thread'[s] = "working"
          BY <3>2 DEF Radio!Moved, Radio!Goto, RadioTypes
        <4>2. previous' # Nowhere
          BY <4>1 DEF Radio!CallingChannel, RadioTypes, Radio!RadioAssumption
        <4>3. previous' = Home
          BY <1>1, <4>1, <4>2, MovesKnowHome
        <4>4. QED  BY <1>2, <3>2, <4>1, <4>3 DEF OnItsWay, RadioTypes
      <3>3. QED  BY <2>2, <3>1, <3>2
    <2>5. QED  BY <2>3, <2>4
  <1>5. QED  BY <1>3, <1>4

\* The two steps of a return: the dial first, then what is remembered.
LEMMA RestoreStays ==
    ASSUME Radio!RadioAssumption, RadioTypes, Apart, KnowHome, OnItsWay, ~lost',
           NEW a \in Session \cup {Ui}, Radio!Retune(a) \/ Radio!Forget(a)
    PROVE  KnowHome' /\ OnItsWay'
  <1>1. UNCHANGED <<thread, on, sweep, scanner, tasks>>
    BY DEF Radio!Retune, Radio!Forget, Radio!others
  <1>2. restoring[a] # "no" /\ (Radio!Forget(a) => restoring[a] = "clear")
    BY DEF Radio!Retune, Radio!Forget
  <1>3. \A s \in Session : on[s] = Nowhere
    BY <1>2 DEF Apart, OnItsWay, Carrying
  <1>4. OnItsWay'
    BY <1>1, <1>3 DEF OnItsWay
  <1>5. CASE Radio!Retune(a)
    <2>1. previous' = previous /\ dial' = IF previous = Nowhere THEN dial ELSE previous
      BY <1>5 DEF Radio!Retune
    <2>2. QED  BY <1>1, <1>4, <2>1 DEF KnowHome, Radio!HomeIsRemembered
  <1>6. CASE Radio!Forget(a)
    <2>1. previous' = Nowhere /\ dial' = dial
      BY <1>6 DEF Radio!Forget
    <2>2. previous # Nowhere => dial = Home
      BY <1>2, <1>6 DEF Apart, KnowHome
    <2>3. QED  BY <1>1, <1>4, <2>1, <2>2
               DEF KnowHome, Radio!HomeIsRemembered, Radio!RadioAssumption
  <1>7. QED  BY <1>5, <1>6

\* Before a sweep, and before a scan, the radio is at home.
LEMMA AtHome ==
    ASSUME Radio!RadioAssumption, RadioTypes, Apart, KnowHome,
           previous = Nowhere, sweep.at \in {"off", "reading"}, scanner = Nowhere, tasks = {}
    PROVE  dial = Home
  BY DEF KnowHome, Radio!HomeIsRemembered, Radio!RadioAssumption

\* No payload is carried on another channel while the radio knows no way home.
LEMMA NobodyCarries ==
    ASSUME Radio!RadioAssumption, RadioTypes, Apart, OnItsWay,
           sweep.at # "off" \/ scanner # Nowhere \/ tasks # {}
    PROVE  \A s \in Session : on[s] = Nowhere
  BY DEF Apart, OnItsWay, Radio!RadioAssumption

\* The sweep over the channels comes back to where it read the dial.
LEMMA SweepStays ==
    ASSUME Radio!RadioAssumption, RadioTypes, Apart, KnowHome, OnItsWay, Apart', ~lost',
           \/ Radio!StartSweep \/ Radio!ReadHome \/ Radio!LookRound
           \/ (\E c \in Channel : Radio!SweepOn(c)) \/ Radio!Return
    PROVE  KnowHome' /\ OnItsWay'
  <1> USE DEF Radio!sessions
  <1>1. UNCHANGED <<previous, thread, on, scanner, tasks>>
    BY DEF Radio!StartSweep, Radio!ReadHome, Radio!LookRound, Radio!SweepOn, Radio!Return
  <1>2. CASE Radio!StartSweep
    <2>1. dial' = dial /\ sweep.at = "off" /\ sweep'.at = "reading" /\ sweep'.home = Nowhere
      BY <1>2 DEF Radio!StartSweep, Radio!NoSweep
    <2>2. QED  BY <1>1, <2>1 DEF KnowHome, OnItsWay, Radio!HomeIsRemembered
  <1>3. ASSUME sweep.at # "off" PROVE OnItsWay'
    BY <1>1, <1>3, NobodyCarries DEF OnItsWay
  <1>4. CASE Radio!ReadHome
    <2>1. dial' = dial /\ sweep.at = "reading" /\ sweep'.at = "looking" /\ sweep'.home = dial
      BY <1>4 DEF Radio!ReadHome, RadioTypes, Sweep
    <2>2. dial = Home
      BY <2>1, AtHome DEF Apart
    <2>3. QED  BY <1>1, <1>3, <2>1, <2>2 DEF KnowHome, Radio!HomeIsRemembered
  <1>5. CASE Radio!LookRound
    <2>1. dial' = dial /\ sweep.at = "looking" /\ sweep'.at \in {"returning", "tuning"}
          /\ sweep'.home = sweep.home
      BY <1>5 DEF Radio!LookRound, RadioTypes, Sweep
    <2>2. QED  BY <1>1, <1>3, <2>1 DEF KnowHome, Radio!HomeIsRemembered
  <1>6. ASSUME NEW c \in Channel, Radio!SweepOn(c) PROVE KnowHome' /\ OnItsWay'
    <2>1. sweep.at = "tuning" /\ sweep'.at = "looking" /\ sweep'.home = sweep.home
      BY <1>6 DEF Radio!SweepOn, RadioTypes, Sweep
    <2>2. QED  BY <1>1, <1>3, <2>1 DEF KnowHome, Radio!HomeIsRemembered
  <1>7. CASE Radio!Return
    <2>1. sweep.at = "returning" /\ sweep'.at = "off" /\ sweep'.home = Nowhere
      BY <1>7 DEF Radio!Return, Radio!NoSweep
    <2>2. dial' = Home
      BY <1>7, <2>1 DEF Radio!Return, KnowHome, Radio!RadioAssumption
    <2>3. QED  BY <1>1, <1>3, <2>1, <2>2 DEF KnowHome, Radio!HomeIsRemembered
  <1>8. QED  BY <1>2, <1>4, <1>5, <1>6, <1>7

\* The scanner comes back to the channel it was started on.
LEMMA ScannerStays ==
    ASSUME Radio!RadioAssumption, RadioTypes, Apart, KnowHome, OnItsWay, Apart', ~lost',
           \/ Radio!StartScanner \/ Radio!StopScanner
           \/ (\E c \in Channel : Radio!TickScanner(c))
           \/ \E t \in tasks : Radio!TuneScanner(t)
    PROVE  KnowHome' /\ OnItsWay'
  <1> USE DEF Radio!sessions
  <1>1. UNCHANGED <<previous, thread, on, sweep>>
    BY DEF Radio!StartScanner, Radio!StopScanner, Radio!TickScanner, Radio!TuneScanner
  <1>2. CASE Radio!StartScanner
    <2>1. /\ dial' = dial /\ scanner' = dial /\ tasks' = tasks /\ scanner = Nowhere
          /\ sweep.at = "off" /\ scanner' # Nowhere
      BY <1>2 DEF Radio!StartScanner, RadioTypes, Radio!RadioAssumption
    <2>2. previous = Nowhere /\ \A t \in tasks : t.name # "scanner-home"
      BY <1>1, <2>1 DEF Apart
    <2>3. tasks = {} /\ dial = Home
      BY <2>1, <2>2, AtHome DEF KnowHome
    <2>4. QED  BY <1>1, <2>1, <2>3 DEF KnowHome, OnItsWay, Radio!HomeIsRemembered
  <1>3. CASE Radio!StopScanner
    <2>1. /\ dial' = dial /\ scanner # Nowhere /\ scanner' = Nowhere
      BY <1>3 DEF Radio!StopScanner
    <2>2. tasks' = tasks \cup {[name |-> "scanner-home", to |-> Home]}
      BY <1>3, <2>1 DEF Radio!StopScanner, Radio!Pending, Apart, KnowHome
    <2>3. \A t \in tasks' : t = [name |-> "scanner-home", to |-> Home]
      BY <2>2 DEF Apart
    <2>4. OnItsWay'
      BY <1>1, <2>1, NobodyCarries DEF OnItsWay
    <2>5. QED  BY <1>1, <2>1, <2>2, <2>3, <2>4 DEF KnowHome, Radio!HomeIsRemembered
  <1>4. ASSUME NEW c \in Channel, Radio!TickScanner(c) PROVE KnowHome' /\ OnItsWay'
    <2>1. /\ dial' = dial /\ scanner' = scanner /\ scanner # Nowhere
          /\ tasks' = {[name |-> "scanner-tune", to |-> c]}
      BY <1>4 DEF Radio!TickScanner
    <2>2. OnItsWay'
      BY <1>1, <2>1, NobodyCarries DEF OnItsWay
    <2>3. QED  BY <1>1, <2>1, <2>2 DEF KnowHome, Radio!HomeIsRemembered
  <1>5. ASSUME NEW t \in tasks, Radio!TuneScanner(t) PROVE KnowHome' /\ OnItsWay'
    <2>1. /\ scanner' = scanner /\ tasks' = tasks \ {t}
          /\ t.name = "scanner-home" => dial' = t.to
      BY <1>5 DEF Radio!TuneScanner
    <2>2. OnItsWay'
      BY <1>1, NobodyCarries DEF OnItsWay
    <2>3. scanner = Home \/ dial' = Home
      BY <2>1 DEF KnowHome
    <2>4. QED  BY <1>1, <2>1, <2>2, <2>3 DEF KnowHome, Radio!HomeIsRemembered
  <1>6. QED  BY <1>2, <1>3, <1>4, <1>5

\* While nobody crosses anybody, every step keeps what is remembered right.
LEMMA AloneStays ==
    ASSUME Radio!RadioAssumption, RadioTypes, RadioTypes', OneTurn, Apart, KnowHome,
           OnItsWay, Apart', ~lost', Radio!Step
    PROVE  KnowHome' /\ OnItsWay'
  <1> USE DEF Radio!others, Radio!Goto
  <1>1. ASSUME NEW s \in Session,
               \/ Radio!Announce(s) \/ Radio!Offered(s) \/ Radio!Start(s) \/ Radio!End(s)
               \/ Radio!Acquire(s) \/ Radio!NotThere(s) \/ Radio!Release(s) \/ Radio!Tell(s)
        PROVE  KnowHome' /\ OnItsWay'
    <2>1. UNCHANGED <<dial, previous, sweep, scanner, tasks, on>>
      BY <1>1 DEF Radio!Announce, Radio!Offered, Radio!Start, Radio!End, Radio!Acquire,
                  Radio!NotThere, Radio!Release, Radio!Tell
    <2>2. thread' = thread \/ (thread[s] # "working" /\ \E p : thread' = [thread EXCEPT ![s] = p])
      BY <1>1 DEF Radio!Announce, Radio!Offered, Radio!Start, Radio!End, Radio!Acquire,
                  Radio!NotThere, Radio!Release, Radio!Tell
    <2>3. QED  BY <2>1, <2>2, QuietSteps DEF RadioTypes
  <1>2. ASSUME NEW s \in Session, Radio!Finish(s) PROVE KnowHome' /\ OnItsWay'
    <2>1. /\ UNCHANGED <<dial, previous, sweep, scanner, tasks>>
          /\ on' = [on EXCEPT ![s] = Nowhere] /\ thread' = [thread EXCEPT ![s] = "unwinding"]
      BY <1>2 DEF Radio!Finish
    <2>2. QED  BY <2>1, QuietSteps DEF RadioTypes
  <1>3. QED
    BY <1>1, <1>2, SendStays, QsyStays, RestoreStays, SweepStays, ScannerStays
       DEF Radio!Step

\* The invariant of the dial is inductive.
LEMMA RadioKept ==
    ASSUME Radio!RadioAssumption PROVE RadioInv /\ [Radio!Next]_Radio!vars => RadioInv'
  <1> SUFFICES ASSUME RadioInv, [Radio!Next]_Radio!vars PROVE RadioInv'
    OBVIOUS
  <1>1. CASE UNCHANGED Radio!vars
    BY <1>1 DEF Radio!vars, Radio!sessions, Radio!others, RadioInv, RadioTypes, OneTurn,
                HasTurn, Alone, Apart, Carrying, KnowHome, OnItsWay, Radio!HomeIsRemembered
  <1>2. CASE Radio!Next
    <2>1. Radio!Step /\ (crossed' <=> crossed \/ Radio!Crossing') /\ crossed' \in BOOLEAN
      BY <1>2 DEF Radio!Next
    <2>2. RadioTypes' /\ OneTurn'
      BY <2>1, RadioTypesKept, OneTurnKept DEF RadioInv
    <2>3. ASSUME ~crossed' PROVE Alone'
      <3>1. ~crossed /\ ~Radio!Crossing' /\ Alone
        BY <2>1, <2>3 DEF RadioInv
      <3>2. Apart'
        BY <2>2, <3>1 DEF Radio!Crossing, Radio!Pending, Apart, Carrying, RadioTypes
      <3>3. lost => lost'
        BY <2>1, LostStays
      <3>4. QED  BY <2>1, <2>2, <3>1, <3>2, <3>3, AloneStays DEF RadioInv, Alone
    <2>4. QED  BY <2>2, <2>3 DEF RadioInv
  <1>3. QED  BY <1>1, <1>2

\* Through every failure of the radio but a failed return, whatever the order of
\* sessions, threads, sweeps and scans, whoever has moved the radio alone brings it
\* home, and no payload is carried anywhere but where its session went.
THEOREM RadioComesHome ==
    ASSUME Radio!RadioAssumption PROVE Radio!Spec => []AloneItIsReturned
  <1>1. Radio!Init => RadioInv
    <2>1. SUFFICES ASSUME Radio!Init PROVE RadioInv
      OBVIOUS
    <2>2. RadioTypes
      BY <2>1 DEF Radio!Init, Radio!NoSweep, RadioTypes, Sweep, Radio!RadioAssumption
    <2>3. OneTurn /\ Apart
      BY <2>1 DEF Radio!Init, Radio!NoSweep, OneTurn, HasTurn, Apart, Carrying, Radio!Holding
    <2>4. KnowHome /\ OnItsWay
      BY <2>1 DEF Radio!Init, Radio!NoSweep, KnowHome, OnItsWay, Radio!HomeIsRemembered
    <2>5. QED  BY <2>2, <2>3, <2>4 DEF RadioInv, Alone
  <1>2. RadioInv => AloneItIsReturned
    BY DEF RadioInv, Alone, KnowHome, OnItsWay, AloneItIsReturned,
           Radio!AloneItIsReturned,
           Radio!PayloadKeepsItsChannel
  <1>3. QED  BY <1>1, <1>2, RadioKept, PTL DEF Radio!Spec
=============================================================================
