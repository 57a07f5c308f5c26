--------------------------- MODULE IssuanceProofs ----------------------------
(***************************************************************************)
(* Proofs about Issuance, for any owners, registries, credentials, calls   *)
(* and failures.                                                           *)
(*                                                                         *)
(* RowsAreSealed and SealedIsStored speak of the end of a call that has     *)
(* three steps with awaits between them. IInv says what is true on the way: *)
(* a call that seals is about a registry or a credential of that owner, and *)
(* from commit on its event is in the log (SealsFounded), and a seal that  *)
(* has no row yet has a call that goes on to store it (SealsServed).        *)
(*                                                                         *)
(* FoundedInOrder speaks of the box alone. OInv says the same of what every *)
(* call has still to send, entry by entry: what an entry rests on is in the *)
(* box, or due before it. The logs are in order for that (LogInv), and an   *)
(* issuance that is not disturbed goes with all events it may be named by.  *)
(***************************************************************************)
EXTENDS Issuance, Lemmas

Ids == Registries \cup Credentials
Seals == {"vcp", "iss"} \X Ids
Events == Seq(Seals)

Entries ==
    [type : {"key"}, id : Owners, event : Events]
    \cup [type : {"artifacts", "vcp", "iss", "source", "acdc", "grant"}, id : Credentials, event : Events]

SealingCalls == [pc : {"anchor", "witness", "store"}, owner : Owners, event : Events]
SendingCalls == [pc : {"send"}, todo : Seq(Entries) \ {<<>>}]
Calls == {Idle} \cup SealingCalls \cup SendingCalls

IsSealing(p) == call[p].pc \in {"anchor", "witness", "store"}

Typed ==
    /\ log \in [Owners -> Seq(Events)]
    /\ \A o \in Owners : log[o] # <<>>
    /\ DOMAIN registries \subseteq Registries
    /\ DOMAIN iss \subseteq Credentials
    /\ credentials \subseteq Credentials
    /\ call \in [Callers -> Calls]
    /\ count \in [failures : Nat, overlaps : Nat, sends : Nat]

\* A seal in this owner's log that a registry or a credential stored stands for.
Sealable(o, seal) ==
    \/ \E r \in Registries : seal = Seal("vcp", r) /\ o = OwnerOf[r]
    \/ \E c \in credentials : seal = Seal("iss", c) /\ o = Issuer(c)

SealsFounded ==
    \A p \in Callers : IsSealing(p) =>
        /\ call[p].event # <<>>
        /\ Sealable(call[p].owner, Last(call[p].event))
        /\ call[p].pc # "anchor" => Has(call[p].owner, call[p].event)

\* The seal's registry or issuance is stored.
StoredSeal(seal) ==
    \/ \E r \in DOMAIN registries : seal = Seal("vcp", r)
    \/ \E c \in DOMAIN iss : seal = Seal("iss", c)

\* The call of p goes on to store what this seals.
AboutToStore(p, seal) == call[p].pc \in {"witness", "store"} /\ Last(call[p].event) = seal

SealsServed ==
    count.failures = 0 =>
        \A o \in Owners : \A event \in Range(log[o]) \ {<<>>} :
            StoredSeal(Last(event)) \/ \E p \in Callers : AboutToStore(p, Last(event))

IInv == Typed /\ SealsFounded /\ RowsAreSealed /\ SealsServed

-----------------------------------------------------------------------------

\* The last seal of an event.
LEMMA LastSeal == \A event \in Events : event # <<>> => Last(event) \in Seals
<1> SUFFICES ASSUME NEW event \in Seq(Seals), event # <<>> PROVE event[Len(event)] \in Seals
  BY DEF Events, Last
<1> QED
  BY EmptySeq, LenProperties, ElementOfSeq

\* What a log holds, by position.
LEMMA InRange == \A o : DOMAIN log[o] = 1 .. Len(log[o]) => Range(log[o]) = {log[o][i] : i \in 1 .. Len(log[o])}
BY DEF Range

\* saveMessage adds the event and loses none.
LEMMA SaveAdds ==
    ASSUME NEW rows \in Seq(Events), NEW event \in Events
    PROVE /\ Save(rows, event) \in Seq(Events)
          /\ Save(rows, event) # <<>>
          /\ Range(Save(rows, event)) = Range(rows) \cup {event}
<1> DEFINE I == {x \in DOMAIN rows : Len(rows[x]) <= Len(event)}
           k == Cardinality(I)
<1>1. Len(rows) \in Nat /\ DOMAIN rows = 1 .. Len(rows)
  BY LenProperties
<1>2. I \subseteq 1 .. Len(rows)
  BY <1>1
<1> HIDE DEF I
<1>3. k \in 0 .. Len(rows)
  BY <1>1, <1>2, Counted
<1> HIDE DEF k
<1> DEFINE t == Inserted(rows, k, event)
<1>4. t \in Seq(Events) /\ Len(t) = Len(rows) + 1 /\ Range(t) = Range(rows) \cup {event}
  BY <1>3, Insertion
<1>5. Save(rows, event) = t
  <2>1. (1 + k) - 1 = k /\ 1 + k = k + 1
    BY <1>3
  <2> QED
    BY <2>1 DEF Save, Inserted, InsertAt, k, I
<1>6. t # <<>>
  BY <1>1, <1>4, EmptySeq
<1> QED
  BY <1>4, <1>5, <1>6

\* KeyEvent.interact builds an event that ends with the seal.
LEMMA Interacted ==
    ASSUME Typed, NEW o \in Owners, NEW seal \in Seals
    PROVE /\ Interact(o, seal) \in Events
          /\ Interact(o, seal) # <<>>
          /\ Last(Interact(o, seal)) = seal
<1>1. log[o] \in Seq(Events) /\ log[o] # <<>>
  BY DEF Typed
<1>2. Len(log[o]) \in 1 .. Len(log[o])
  BY <1>1, EmptySeq, LenProperties
<1> DEFINE last == log[o][Len(log[o])]
<1>3. last \in Seq(Seals)
  BY <1>1, <1>2, ElementOfSeq DEF Events
<1> HIDE DEF last
<1>4. /\ Append(last, seal) \in Seq(Seals)
      /\ Append(last, seal) # <<>>
      /\ Append(last, seal)[Len(Append(last, seal))] = seal
  BY <1>3, AppendProperties
<1> QED
  BY <1>4 DEF Interact, Last, Events, last

\* A call is what its phase says.
LEMMA CallShapes ==
    \A q \in Calls :
        /\ q.pc \in {"anchor", "witness", "store"} => q \in SealingCalls
        /\ q.pc = "send" => q \in SendingCalls
        /\ q.pc = "idle" => q = Idle
<1> TAKE q \in Calls
<1>1. CASE q = Idle
  BY <1>1 DEF Idle
<1>2. CASE q \in SealingCalls
  BY <1>2 DEF SealingCalls
<1>3. CASE q \in SendingCalls
  BY <1>3 DEF SendingCalls
<1> QED
  BY <1>1, <1>2, <1>3 DEF Calls

\* The fields of a call that seals.
LEMMA Sealings ==
    ASSUME Typed, NEW p \in Callers, IsSealing(p)
    PROVE /\ call[p] \in SealingCalls
          /\ call[p].owner \in Owners
          /\ call[p].event \in Events
<1>1. call[p] \in SealingCalls
  BY CallShapes DEF Typed, IsSealing
<1> QED
  BY <1>1 DEF SealingCalls

\* The fields of a call that sends.
LEMMA Sendings ==
    ASSUME Typed, NEW p \in Callers, call[p].pc = "send"
    PROVE call[p].todo \in Seq(Entries) /\ call[p].todo # <<>>
<1>1. call[p] \in SendingCalls
  BY CallShapes DEF Typed
<1> QED
  BY <1>1 DEF SendingCalls

\* A credential is issued by the owner of its registry.
LEMMA Issuers == \A c \in Credentials : Issuer(c) \in Owners
BY IssuanceAssumption DEF Issuer

\* A call turns into another one and touches nothing that is stored.
LEMMA CallStep ==
    ASSUME Typed, SealsFounded, RowsAreSealed, SealsServed,
           NEW p \in Callers, NEW q \in Calls,
           call' = [call EXCEPT ![p] = q],
           UNCHANGED <<log, registries, credentials, iss>>,
           count' \in [failures : Nat, overlaps : Nat, sends : Nat],
           q.pc \in {"anchor", "witness", "store"} =>
               /\ q.event # <<>>
               /\ Sealable(q.owner, Last(q.event))
               /\ q.pc # "anchor" => Has(q.owner, q.event),
           count'.failures = 0 =>
               /\ count.failures = 0
               /\ call[p].pc \in {"witness", "store"} =>
                      q.pc \in {"witness", "store"} /\ q.event = call[p].event
    PROVE IInv'
<1>1. Typed'
  BY DEF Typed
<1>2. call'[p] = q /\ \A x \in Callers \ {p} : call'[x] = call[x]
  BY DEF Typed
<1>3. \A o, event : Has(o, event)' <=> Has(o, event)
  BY DEF Has
<1>4. \A o, seal : Sealable(o, seal)' <=> Sealable(o, seal)
  BY DEF Sealable
<1>5. SealsFounded'
  <2> SUFFICES ASSUME NEW x \in Callers, IsSealing(x)'
               PROVE /\ call'[x].event # <<>>
                     /\ Sealable(call'[x].owner, Last(call'[x].event))
                     /\ call'[x].pc # "anchor" => Has(call'[x].owner, call'[x].event)
    BY <1>3, <1>4 DEF SealsFounded, Sealable, Has, Last
  <2>1. CASE x = p
    BY <1>2, <2>1 DEF IsSealing
  <2>2. CASE x # p
    BY <1>2, <2>2 DEF IsSealing, SealsFounded
  <2> QED
    BY <2>1, <2>2
<1>6. RowsAreSealed'
  BY <1>3 DEF RowsAreSealed, Has
<1>7. SealsServed'
  <2> SUFFICES ASSUME count'.failures = 0,
                      NEW o \in Owners, NEW event \in Range(log[o]) \ {<<>>}
               PROVE (StoredSeal(Last(event)) \/ \E x \in Callers : AboutToStore(x, Last(event)))'
    BY DEF SealsServed
  <2>1. CASE StoredSeal(Last(event))
    BY <2>1 DEF StoredSeal
  <2>2. ASSUME NEW x \in Callers, AboutToStore(x, Last(event))
        PROVE AboutToStore(x, Last(event))'
    <3>1. CASE x = p
      BY <1>2, <2>2, <3>1 DEF AboutToStore
    <3>2. CASE x # p
      BY <1>2, <2>2, <3>2 DEF AboutToStore
    <3> QED
      BY <3>1, <3>2
  <2> QED
    BY <2>1, <2>2 DEF SealsServed
<1> QED
  BY <1>1, <1>5, <1>6, <1>7 DEF IInv

\* A call begins where there was none.
LEMMA Started ==
    ASSUME Typed, NEW p \in Callers, NEW sends \in Nat, Start(p, sends)
    PROVE /\ call[p].pc = "idle"
          /\ count' \in [failures : Nat, overlaps : Nat, sends : Nat]
          /\ count'.failures = count.failures
<1> DEFINE other == IF \E q \in Callers : call[q].pc # "idle" THEN 1 ELSE 0
<1>1. other \in Nat
  OBVIOUS
<1>2. count' = [count EXCEPT !.overlaps = @ + other, !.sends = @ + sends]
  BY DEF Start
<1> HIDE DEF other
<1>3. count \in [failures : Nat, overlaps : Nat, sends : Nat]
  BY DEF Typed
<1>4. count.overlaps + other \in Nat /\ count.sends + sends \in Nat
  BY <1>1, <1>3
<1> QED
  BY <1>2, <1>3, <1>4 DEF Start

\* A call that begins to seal something sealable keeps the invariant.
LEMMA Began ==
    ASSUME IInv, NEW p \in Callers, NEW o \in Owners, NEW seal \in Seals,
           Sealable(o, seal), Begin(p, o, seal)
    PROVE IInv'
<1> DEFINE q == [pc |-> "anchor", owner |-> o, event |-> Interact(o, seal)]
<1>1. Typed /\ SealsFounded /\ RowsAreSealed /\ SealsServed
  BY DEF IInv
<1>2. Interact(o, seal) \in Events /\ Interact(o, seal) # <<>> /\ Last(Interact(o, seal)) = seal
  BY <1>1, Interacted
<1>3. /\ call[p].pc = "idle"
      /\ count' \in [failures : Nat, overlaps : Nat, sends : Nat]
      /\ count'.failures = count.failures
  BY <1>1, Started DEF Begin
<1>4. call' = [call EXCEPT ![p] = q] /\ UNCHANGED <<log, registries, credentials, iss>>
  BY DEF Begin
<1>5. q \in SealingCalls
  BY <1>2 DEF SealingCalls
<1>6. q \in Calls /\ q.pc = "anchor" /\ q.owner = o /\ q.event = Interact(o, seal)
  BY <1>5 DEF Calls
<1> HIDE DEF q
<1>7. ~(call[p].pc \in {"witness", "store"})
  BY <1>3
<1>8. /\ q.event # <<>>
      /\ Sealable(q.owner, Last(q.event))
      /\ q.pc # "anchor" => Has(q.owner, q.event)
  BY <1>2, <1>6
<1> QED
  BY <1>1, <1>3, <1>4, <1>6, <1>7, <1>8, CallStep

\* A registry may be sealed by its owner.
LEMMA RegistrySeal == \A r \in Registries : Seal("vcp", r) \in Seals /\ Sealable(OwnerOf[r], Seal("vcp", r))
BY DEF Seal, Seals, Ids, Sealable

\* A credential may be sealed by its issuer.
LEMMA CredentialSeal ==
    ASSUME Typed
    PROVE \A c \in credentials : Seal("iss", c) \in Seals /\ Sealable(Issuer(c), Seal("iss", c))
BY DEF Seal, Seals, Ids, Sealable, Typed

\* createRegistry begins.
LEMMA CreateRegistryStep ==
    ASSUME IInv, NEW p \in Callers, NEW r \in Registries, CreateRegistry(p, r)
    PROVE IInv'
<1>1. OwnerOf[r] \in Owners
  BY IssuanceAssumption
<1> QED
  BY <1>1, RegistrySeal, Began DEF CreateRegistry

\* issueCredential begins, perhaps for a credential that has been issued before.
LEMMA IssueCredentialStep ==
    ASSUME IInv, NEW p \in Callers, NEW c \in Credentials, IssueCredential(p, c)
    PROVE IInv'
<1>1. Typed
  BY DEF IInv
<1>2. c \in credentials /\ Begin(p, Issuer(c), Seal("iss", c)) /\ Issuer(c) \in Owners
  BY Issuers DEF IssueCredential
<1>3. Seal("iss", c) \in Seals /\ Sealable(Issuer(c), Seal("iss", c))
  BY <1>1, <1>2, CredentialSeal
<1> QED
  BY <1>2, <1>3, Began

\* The event goes to the witness: the call still stores its row.
LEMMA SendToWitnessStep ==
    ASSUME IInv, NEW p \in Callers, SendToWitness(p)
    PROVE IInv'
<1> DEFINE q == [call[p] EXCEPT !.pc = "store"]
<1>1. Typed /\ SealsFounded /\ RowsAreSealed /\ SealsServed
  BY DEF IInv
<1>2. call[p].pc = "witness" /\ IsSealing(p)
  BY DEF SendToWitness, IsSealing
<1>3. call[p] \in SealingCalls
  BY <1>1, <1>2, Sealings
<1>4. q \in SealingCalls /\ q.pc = "store" /\ q.owner = call[p].owner /\ q.event = call[p].event
  BY <1>3 DEF SealingCalls
<1>5. q \in Calls
  BY <1>4 DEF Calls
<1>6. call' = [call EXCEPT ![p] = q]
  BY <1>1 DEF SendToWitness, Typed
<1> HIDE DEF q
<1>7. UNCHANGED <<log, registries, credentials, iss, count>>
  BY DEF SendToWitness
<1>8. count' \in [failures : Nat, overlaps : Nat, sends : Nat] /\ count'.failures = count.failures
  BY <1>1, <1>7 DEF Typed
<1>9. /\ q.event # <<>>
      /\ Sealable(q.owner, Last(q.event))
      /\ Has(q.owner, q.event)
  BY <1>1, <1>2, <1>4 DEF SealsFounded
<1> QED
  BY <1>1, <1>4, <1>5, <1>6, <1>7, <1>8, <1>9, CallStep

\* A call that sends stores no rows, whatever it has still to do.
LEMMA Sent ==
    ASSUME IInv, NEW p \in Callers, NEW todo \in Seq(Entries),
           ~(call[p].pc \in {"witness", "store"}), Send(p, todo),
           count' \in [failures : Nat, overlaps : Nat, sends : Nat],
           count'.failures = count.failures
    PROVE IInv'
<1> DEFINE q == IF todo = <<>> THEN Idle ELSE [pc |-> "send", todo |-> todo]
<1>1. Typed /\ SealsFounded /\ RowsAreSealed /\ SealsServed
  BY DEF IInv
<1>2. q \in Calls /\ q.pc \in {"idle", "send"}
  <2>1. todo # <<>> => [pc |-> "send", todo |-> todo] \in SendingCalls
    BY DEF SendingCalls
  <2> QED
    BY <2>1 DEF Calls, Idle
<1>3. call' = [call EXCEPT ![p] = q] /\ UNCHANGED <<log, registries, credentials, iss>>
  BY DEF Send
<1> HIDE DEF q
<1>4. ~(q.pc \in {"anchor", "witness", "store"})
  BY <1>2
<1> QED
  BY <1>1, <1>2, <1>3, <1>4, CallStep

\* A call that throws owes no row, or a request has failed.
LEMMA Thrown ==
    ASSUME IInv, NEW p \in Callers, Throw(p),
           count' \in [failures : Nat, overlaps : Nat, sends : Nat],
           count'.failures = 0 => count.failures = 0 /\ ~(call[p].pc \in {"witness", "store"})
    PROVE IInv'
<1>1. Typed /\ SealsFounded /\ RowsAreSealed /\ SealsServed
  BY DEF IInv
<1>2. Idle \in Calls /\ ~(Idle.pc \in {"anchor", "witness", "store"})
  BY DEF Calls, Idle
<1>3. call' = [call EXCEPT ![p] = Idle] /\ UNCHANGED <<log, registries, credentials, iss>>
  BY DEF Throw
<1> QED
  BY <1>1, <1>2, <1>3, CallStep

\* A key event as a message.
LEMMA KeyEntry == \A o \in Owners, event \in Events : Entry("key", o, event) \in Entries
BY DEF Entry, Entries

\* The other messages.
LEMMA CredentialEntry ==
    \A type \in {"artifacts", "vcp", "iss", "source", "acdc", "grant"}, c \in Credentials, event \in Events :
        Entry(type, c, event) \in Entries
BY DEF Entry, Entries

\* The empty sequence of seals is an event.
LEMMA Inception == <<>> \in Events
BY DEF Events

\* What is not a key event is about a credential.
LEMMA EntryShapes ==
    \A e \in Entries : e.type # "key" => e.id \in Credentials
BY DEF Entries

\* The artifacts of a credential are messages.
LEMMA ArtifactsTyped ==
    ASSUME Typed, NEW c \in Credentials
    PROVE Artifacts(c) \in Seq(Entries)
<1> DEFINE o == Issuer(c)
           sources == [i \in DOMAIN Sources[c] |-> Entry("source", Sources[c][i], <<>>)]
           keys == [i \in DOMAIN log[o] |-> Entry("key", o, log[o][i])]
           rows == <<Entry("vcp", c, <<>>), Entry("iss", c, <<>>)>>
<1>1. sources \in Seq(Entries)
  <2>1. Sources[c] \in Seq(Credentials)
    BY IssuanceAssumption
  <2>2. Len(Sources[c]) \in Nat /\ DOMAIN Sources[c] = 1 .. Len(Sources[c])
    BY <2>1, LenProperties
  <2>3. \A i \in 1 .. Len(Sources[c]) : Entry("source", Sources[c][i], <<>>) \in Entries
    BY <2>1, ElementOfSeq, CredentialEntry, Inception
  <2>4. sources \in [1 .. Len(Sources[c]) -> Entries]
    BY <2>2, <2>3
  <2> QED
    BY <2>2, <2>4, SeqDef
<1>2. keys \in Seq(Entries)
  <2>1. o \in Owners /\ log[o] \in Seq(Events)
    BY Issuers DEF Typed
  <2> HIDE DEF o
  <2>2. Len(log[o]) \in Nat /\ DOMAIN log[o] = 1 .. Len(log[o])
    BY <2>1, LenProperties
  <2>3. \A i \in 1 .. Len(log[o]) : Entry("key", o, log[o][i]) \in Entries
    BY <2>1, ElementOfSeq, KeyEntry
  <2>4. keys \in [1 .. Len(log[o]) -> Entries]
    BY <2>2, <2>3
  <2> QED
    BY <2>2, <2>4, SeqDef
<1>3. rows \in Seq(Entries)
  <2>1. Entry("vcp", c, <<>>) \in Entries /\ Entry("iss", c, <<>>) \in Entries
    BY CredentialEntry, Inception
  <2> QED
    BY <2>1
<1>4. Artifacts(c) = sources \o keys \o rows
  BY DEF Artifacts
<1> HIDE DEF sources, keys, rows
<1> QED
  BY <1>1, <1>2, <1>3, <1>4, ConcatProperties

\* sendCredentialArtifacts begins.
LEMMA SendCredentialArtifactsStep ==
    ASSUME IInv, NEW p \in Callers, NEW c \in Requested, SendCredentialArtifacts(p, c)
    PROVE IInv'
<1>1. Typed
  BY DEF IInv
<1>2. /\ call[p].pc = "idle"
      /\ count' \in [failures : Nat, overlaps : Nat, sends : Nat]
      /\ count'.failures = count.failures
  BY <1>1, Started DEF SendCredentialArtifacts
<1>3. Entry("artifacts", c, <<>>) \in Entries
  BY IssuanceAssumption, CredentialEntry, Inception
<1>4. <<Entry("artifacts", c, <<>>)>> \in Seq(Entries)
  BY <1>3
<1>5. Send(p, <<Entry("artifacts", c, <<>>)>>)
  BY DEF SendCredentialArtifacts
<1> QED
  BY <1>2, <1>4, <1>5, Sent

\* grant begins, with the event its issuance names.
LEMMA GrantStep ==
    ASSUME IInv, NEW p \in Callers, NEW c \in Requested, Grant(p, c)
    PROVE IInv'
<1>1. Typed /\ RowsAreSealed
  BY DEF IInv
<1>2. /\ call[p].pc = "idle"
      /\ count' \in [failures : Nat, overlaps : Nat, sends : Nat]
      /\ count'.failures = count.failures
  BY <1>1, Started DEF Grant
<1>3. c \in DOMAIN iss
  BY DEF Grant, GetCredentialEvents
<1>4. iss[c] \in Events
  <2>1. Issuer(c) \in Owners /\ log[Issuer(c)] \in Seq(Events) /\ iss[c] \in Range(log[Issuer(c)])
    <3>1. c \in Credentials
      BY <1>1, <1>3 DEF Typed
    <3>2. Issuer(c) \in Owners
      BY <3>1, Issuers
    <3>3. log[Issuer(c)] \in Seq(Events)
      BY <1>1, <3>2 DEF Typed
    <3>4. Has(Issuer(c), iss[c])
      BY <1>1, <1>3 DEF RowsAreSealed
    <3> QED
      BY <3>2, <3>3, <3>4 DEF Has
  <2> QED
    BY <2>1, LenProperties, ElementOfSeq DEF Range
<1>5. GetCredentialEvents(c)[1].event = iss[c]
  BY <1>3 DEF GetCredentialEvents, Entry
<1> DEFINE e == Entry("grant", c, iss[c])
<1>6. e \in Entries
  BY <1>4, IssuanceAssumption, CredentialEntry
<1>7. Send(p, <<e>>)
  BY <1>5 DEF Grant
<1> HIDE DEF e
<1>8. <<e>> \in Seq(Entries)
  BY <1>6
<1> QED
  BY <1>2, <1>7, <1>8, Sent

\* The message that is due and what comes after it.
LEMMA Pending ==
    ASSUME Typed, NEW p \in Callers, call[p].pc = "send"
    PROVE Now(p) \in Entries /\ Rest(p) \in Seq(Entries)
BY Sendings, HeadTailProperties DEF Now, Rest

\* The artifacts of a credential, or of a source, take the place of their entry.
LEMMA ExpandStep ==
    ASSUME IInv, NEW p \in Callers, Expand(p)
    PROVE IInv'
<1>1. Typed
  BY DEF IInv
<1>2. call[p].pc = "send" /\ UNCHANGED count
  BY DEF Expand
<1>3. Now(p) \in Entries /\ Rest(p) \in Seq(Entries)
  BY <1>1, <1>2, Pending
<1>4. /\ count' \in [failures : Nat, overlaps : Nat, sends : Nat]
      /\ count'.failures = count.failures
  BY <1>1, <1>2 DEF Typed
<1>5. \E todo \in Seq(Entries) : Send(p, todo)
  <2>1. CASE Now(p).type = "artifacts" /\ Send(p, Artifacts(Now(p).id) \o Rest(p))
    <3>1. Now(p).id \in Credentials
      BY <1>3, <2>1, EntryShapes
    <3>2. Artifacts(Now(p).id) \in Seq(Entries)
      BY <1>1, <3>1, ArtifactsTyped
    <3>3. Artifacts(Now(p).id) \o Rest(p) \in Seq(Entries)
      BY <1>3, <3>2, ConcatProperties
    <3> QED
      BY <2>1, <3>3
  <2>2. CASE Now(p).type = "source" /\ Now(p).id \in credentials
             /\ Send(p, <<Entry("artifacts", Now(p).id, <<>>), Entry("acdc", Now(p).id, <<>>)>> \o Rest(p))
    <3>1. Now(p).id \in Credentials
      BY <1>3, <2>2, EntryShapes
    <3>2. Entry("artifacts", Now(p).id, <<>>) \in Entries /\ Entry("acdc", Now(p).id, <<>>) \in Entries
      BY <3>1, CredentialEntry, Inception
    <3>3. <<Entry("artifacts", Now(p).id, <<>>), Entry("acdc", Now(p).id, <<>>)>> \in Seq(Entries)
      BY <3>2
    <3>4. <<Entry("artifacts", Now(p).id, <<>>), Entry("acdc", Now(p).id, <<>>)>> \o Rest(p) \in Seq(Entries)
      BY <1>3, <3>3, ConcatProperties
    <3> QED
      BY <2>2, <3>4
  <2>3. CASE Now(p).type = "source" /\ Now(p).id \notin credentials /\ Send(p, <<>>)
    <3>1. <<>> \in Seq(Entries)
      OBVIOUS
    <3> QED
      BY <2>3, <3>1
  <2> QED
    BY <2>1, <2>2, <2>3 DEF Expand
<1>6. ~(call[p].pc \in {"witness", "store"})
  BY <1>2
<1> QED
  BY <1>4, <1>5, <1>6, Sent

\* A message is forwarded.
LEMMA ForwardStep ==
    ASSUME IInv, NEW p \in Callers, Forward(p)
    PROVE IInv'
<1>1. Typed
  BY DEF IInv
<1>2. call[p].pc = "send" /\ UNCHANGED count /\ Send(p, Rest(p))
  BY DEF Forward, Forwarding
<1>3. Rest(p) \in Seq(Entries)
  BY <1>1, <1>2, Pending
<1>4. /\ count' \in [failures : Nat, overlaps : Nat, sends : Nat]
      /\ count'.failures = count.failures
  BY <1>1, <1>2 DEF Typed
<1>5. ~(call[p].pc \in {"witness", "store"})
  BY <1>2
<1> QED
  BY <1>2, <1>3, <1>4, <1>5, Sent

\* The witnesses do not agree: nothing was sealed.
LEMMA FailCommitStep ==
    ASSUME IInv, NEW p \in Callers, FailCommit(p)
    PROVE IInv'
<1>1. call[p].pc = "anchor" /\ Throw(p) /\ UNCHANGED count
  BY DEF FailCommit
<1>2. count' \in [failures : Nat, overlaps : Nat, sends : Nat]
  BY <1>1 DEF IInv, Typed
<1>3. ~(call[p].pc \in {"witness", "store"})
  BY <1>1
<1> QED
  BY <1>1, <1>2, <1>3, Thrown

\* A request fails: from here on a seal may stay without a row.
LEMMA FailStep ==
    ASSUME IInv, NEW p \in Callers, Fail(p)
    PROVE IInv'
<1>1. Throw(p) /\ count' = [count EXCEPT !.failures = @ + 1]
  BY DEF Fail
<1>2. count \in [failures : Nat, overlaps : Nat, sends : Nat]
  BY DEF IInv, Typed
<1>3. count.failures + 1 \in Nat /\ count.failures + 1 # 0
  BY <1>2
<1>4. count' \in [failures : Nat, overlaps : Nat, sends : Nat] /\ count'.failures # 0
  BY <1>1, <1>2, <1>3
<1> QED
  BY <1>1, <1>4, Thrown

\* A credential is stored: what was sealable still is.
LEMMA CreateCredentialStep ==
    ASSUME IInv, NEW c \in Credentials, CreateCredential(c)
    PROVE IInv'
<1>1. Typed /\ SealsFounded /\ RowsAreSealed /\ SealsServed
  BY DEF IInv
<1>2. credentials' = credentials \cup {c} /\ UNCHANGED <<log, registries, iss, box, call, count, disturbed>>
  BY DEF CreateCredential
<1>3. Typed'
  BY <1>1, <1>2 DEF Typed
<1>4. \A o, event : Has(o, event)' <=> Has(o, event)
  BY <1>2 DEF Has
<1>5. \A o, seal : Sealable(o, seal) => Sealable(o, seal)'
  BY <1>2 DEF Sealable
<1>6. SealsFounded'
  BY <1>1, <1>2, <1>4, <1>5 DEF SealsFounded, IsSealing, Last, Sealable, Has
<1>7. RowsAreSealed'
  BY <1>1, <1>2 DEF RowsAreSealed, Has
<1>8. SealsServed'
  BY <1>1, <1>2 DEF SealsServed, StoredSeal, AboutToStore
<1> QED
  BY <1>3, <1>6, <1>7, <1>8 DEF IInv

\* The event is stored: its seal is new in the log, and this call will store the row.
LEMMA CommitStep ==
    ASSUME IInv, NEW p \in Callers, Commit(p)
    PROVE IInv'
<1>1. Typed /\ SealsFounded /\ RowsAreSealed /\ SealsServed
  BY DEF IInv
<1>2. call[p].pc = "anchor" /\ call[p].owner \in Owners /\ call[p].event \in Events /\ call[p] \in SealingCalls
  BY <1>1, Sealings DEF Commit, IsSealing
<1>3. PICK o \in Owners, event \in Events : o = call[p].owner /\ event = call[p].event
  BY <1>2
<1> DEFINE pc == IF o \in Witnessed THEN "witness" ELSE "store"
           q == [call[p] EXCEPT !.pc = pc]
<1>4. /\ call[p].pc = "anchor"
      /\ log' = IF Has(o, event) THEN log ELSE [log EXCEPT ![o] = Save(@, event)]
      /\ call' = [call EXCEPT ![p].pc = pc]
      /\ UNCHANGED <<registries, credentials, iss, count>>
  BY <1>3 DEF Commit
<1>5. call[p] \in SealingCalls /\ o \in Owners /\ event \in Events
  BY <1>2
<1>6. pc \in {"witness", "store"}
  OBVIOUS
<1> HIDE DEF pc
<1>7. q \in SealingCalls /\ q.pc = pc /\ q.owner = o /\ q.event = event
  BY <1>5, <1>6, <1>3 DEF SealingCalls
<1>8. call' = [call EXCEPT ![p] = q]
  BY <1>1, <1>4 DEF Typed
<1>9. q \in Calls
  BY <1>7 DEF Calls
<1> HIDE DEF q
<1>10. call' \in [Callers -> Calls] /\ call'[p] = q /\ \A x \in Callers \ {p} : call'[x] = call[x]
  BY <1>1, <1>8, <1>9 DEF Typed
<1>11. event # <<>> /\ Sealable(o, Last(event))
  BY <1>1, <1>4, <1>3 DEF SealsFounded, IsSealing
<1>12. /\ log' \in [Owners -> Seq(Events)]
       /\ \A x \in Owners : log'[x] # <<>>
       /\ \A x \in Owners : Range(log'[x]) = IF x = o THEN Range(log[x]) \cup {event} ELSE Range(log[x])
  <2>1. log \in [Owners -> Seq(Events)] /\ \A x \in Owners : log[x] # <<>>
    BY <1>1 DEF Typed
  <2>2. CASE Has(o, event)
    <3>1. log' = log /\ event \in Range(log[o])
      BY <1>4, <2>2 DEF Has
    <3> QED
      BY <2>1, <3>1
  <2>3. CASE ~Has(o, event)
    <3>1. log' = [log EXCEPT ![o] = Save(log[o], event)]
      BY <1>4, <2>3
    <3>2. log[o] \in Seq(Events)
      BY <1>5, <2>1
    <3>3. /\ Save(log[o], event) \in Seq(Events)
          /\ Save(log[o], event) # <<>>
          /\ Range(Save(log[o], event)) = Range(log[o]) \cup {event}
      BY <1>5, <3>2, SaveAdds
    <3>4. log'[o] = Save(log[o], event) /\ \A x \in Owners \ {o} : log'[x] = log[x]
      BY <1>5, <2>1, <3>1
    <3>5. log' \in [Owners -> Seq(Events)]
      BY <2>1, <3>1, <3>3
    <3> QED
      BY <2>1, <3>3, <3>4, <3>5
  <2> QED
    BY <2>2, <2>3
<1>13. \A x \in Owners : \A e : Has(x, e) => Has(x, e)'
  BY <1>12 DEF Has
<1>14. Has(o, event)'
  BY <1>5, <1>12 DEF Has
<1>15. Typed'
  BY <1>1, <1>4, <1>10, <1>12 DEF Typed
<1>16. \A x, seal : Sealable(x, seal) => Sealable(x, seal)'
  BY <1>4 DEF Sealable
<1>17. SealsFounded'
  <2> SUFFICES ASSUME NEW x \in Callers, IsSealing(x)'
               PROVE /\ call'[x].event # <<>>
                     /\ Sealable(call[x].owner, Last(call[x].event))'
                     /\ call'[x].pc # "anchor" => Has(call[x].owner, call[x].event)'
    BY DEF SealsFounded
  <2>1. CASE x = p
    <3>1. call'[x].owner = o /\ call'[x].event = event
      BY <1>7, <1>10, <2>1
    <3>2. Sealable(o, Last(event))'
      BY <1>4, <1>11 DEF Sealable
    <3> QED
      BY <1>11, <1>14, <3>1, <3>2 DEF Sealable, Has
  <2>2. CASE x # p
    <3>1. call'[x] = call[x]
      BY <1>10, <2>2
    <3>2. IsSealing(x)
      BY <3>1 DEF IsSealing
    <3>3. call[x].owner \in Owners
      BY <1>1, <3>2, Sealings
    <3>4. /\ call[x].event # <<>>
          /\ Sealable(call[x].owner, Last(call[x].event))
          /\ call[x].pc # "anchor" => Has(call[x].owner, call[x].event)
      BY <1>1, <3>2 DEF SealsFounded
    <3> QED
      BY <1>4, <1>13, <3>1, <3>3, <3>4 DEF Sealable, Has
  <2> QED
    BY <2>1, <2>2
<1>18. RowsAreSealed'
  <2>1. \A r \in DOMAIN registries : OwnerOf[r] \in Owners
    BY <1>1, IssuanceAssumption DEF Typed
  <2>2. \A c \in DOMAIN iss : Issuer(c) \in Owners
    BY <1>1, Issuers DEF Typed
  <2> QED
    BY <1>1, <1>4, <1>13, <2>1, <2>2 DEF RowsAreSealed, Has
<1>19. SealsServed'
  <2> SUFFICES ASSUME count'.failures = 0,
                      NEW x \in Owners, NEW e \in Range(log'[x]), e # <<>>
               PROVE (StoredSeal(Last(e)) \/ \E y \in Callers : AboutToStore(y, Last(e)))'
    BY DEF SealsServed
  <2>1. CASE e \in Range(log[x])
    <3>1. StoredSeal(Last(e)) \/ \E y \in Callers : AboutToStore(y, Last(e))
      BY <1>1, <1>4, <2>1 DEF SealsServed
    <3>2. CASE StoredSeal(Last(e))
      BY <1>4, <3>2 DEF StoredSeal
    <3>3. ASSUME NEW y \in Callers, AboutToStore(y, Last(e))
          PROVE AboutToStore(y, Last(e))'
      BY <1>4, <1>10, <3>3 DEF AboutToStore
    <3> QED
      BY <3>1, <3>2, <3>3
  <2>2. CASE e = event
    <3>1. AboutToStore(p, Last(e))'
      BY <1>6, <1>7, <1>10, <2>2 DEF AboutToStore
    <3> QED
      BY <3>1
  <2> QED
    BY <1>12, <2>1, <2>2
<1> QED
  BY <1>15, <1>17, <1>18, <1>19 DEF IInv

\* The row is stored, with the event the call sealed it by, and its call is over.
LEMMA StoreStep ==
    ASSUME IInv, NEW p \in Callers, Store(p)
    PROVE IInv'
<1>1. Typed /\ SealsFounded /\ RowsAreSealed /\ SealsServed
  BY DEF IInv
<1>2. /\ call[p].pc = "store"
      /\ call' = [call EXCEPT ![p] = Idle]
      /\ UNCHANGED <<log, credentials, count>>
  BY DEF Store
<1>3. call[p].owner \in Owners /\ call[p].event \in Events /\ call[p].event # <<>>
  BY <1>1, <1>2, Sealings DEF IsSealing, SealsFounded
<1>4. PICK o \in Owners, event \in Events : o = call[p].owner /\ event = call[p].event
  BY <1>3
<1>5. Has(o, event) /\ Sealable(o, Last(event))
  BY <1>1, <1>2, <1>4 DEF SealsFounded, IsSealing
<1>6. Idle \in Calls /\ Idle.pc = "idle"
  BY DEF Calls, Idle
<1>7. call' \in [Callers -> Calls] /\ call'[p] = Idle /\ \A x \in Callers \ {p} : call'[x] = call[x]
  BY <1>1, <1>2, <1>6 DEF Typed
<1>8. \A x, e : Has(x, e)' <=> Has(x, e)
  BY <1>2 DEF Has
\* What is stored, whichever of the two it is.
<1>9. \/ \E r \in Registries :
            /\ o = OwnerOf[r] /\ Last(event) = Seal("vcp", r)
            /\ DOMAIN registries' = DOMAIN registries \cup {r}
            /\ registries'[r] = event /\ \A x \in DOMAIN registries \ {r} : registries'[x] = registries[x]
            /\ UNCHANGED iss
      \/ \E c \in credentials :
            /\ o = Issuer(c) /\ Last(event) = Seal("iss", c)
            /\ DOMAIN iss' = DOMAIN iss \cup {c}
            /\ iss'[c] = event /\ \A x \in DOMAIN iss \ {c} : iss'[x] = iss[x]
            /\ UNCHANGED registries
  <2>1. ASSUME NEW r \in Registries, Last(event) = Seal("vcp", r)
        PROVE /\ DOMAIN registries' = DOMAIN registries \cup {r}
              /\ registries'[r] = event /\ \A x \in DOMAIN registries \ {r} : registries'[x] = registries[x]
              /\ UNCHANGED iss
    <3>1. Last(event)[1] = "vcp" /\ Last(event)[2] = r
      BY <2>1 DEF Seal
    <3>2. registries' = Upsert(registries, r, event) /\ UNCHANGED iss
      BY <1>4, <3>1 DEF Store, SealedBy
    <3> QED
      BY <3>2 DEF Upsert
  <2>2. ASSUME NEW c \in credentials, Last(event) = Seal("iss", c)
        PROVE /\ DOMAIN iss' = DOMAIN iss \cup {c}
              /\ iss'[c] = event /\ \A x \in DOMAIN iss \ {c} : iss'[x] = iss[x]
              /\ UNCHANGED registries
    <3>1. Last(event)[1] = "iss" /\ Last(event)[2] = c
      BY <2>2 DEF Seal
    <3>2. iss' = Upsert(iss, c, event) /\ UNCHANGED registries
      BY <1>4, <3>1 DEF Store, SealedBy
    <3> QED
      BY <3>2 DEF Upsert
  <2> QED
    BY <1>5, <2>1, <2>2 DEF Sealable
<1>10. DOMAIN registries \subseteq Registries /\ DOMAIN iss \subseteq credentials /\ credentials \subseteq Credentials
  BY <1>1 DEF Typed, RowsAreSealed
<1>11. Typed'
  <2>1. DOMAIN registries' \subseteq Registries
    BY <1>9, <1>10
  <2>2. DOMAIN iss' \subseteq Credentials
    BY <1>9, <1>10
  <2> QED
    BY <1>1, <1>2, <1>7, <2>1, <2>2 DEF Typed
<1>12. SealsFounded'
  <2> SUFFICES ASSUME NEW x \in Callers, IsSealing(x)'
               PROVE /\ call'[x].event # <<>>
                     /\ Sealable(call[x].owner, Last(call[x].event))'
                     /\ call'[x].pc # "anchor" => Has(call[x].owner, call[x].event)'
    BY DEF SealsFounded
  <2>1. x # p
    BY <1>6, <1>7 DEF IsSealing
  <2>2. call'[x] = call[x]
    BY <1>7, <2>1
  <2>3. IsSealing(x)
    BY <2>2 DEF IsSealing
  <2>4. /\ call[x].event # <<>>
        /\ Sealable(call[x].owner, Last(call[x].event))
        /\ call[x].pc # "anchor" => Has(call[x].owner, call[x].event)
    BY <1>1, <2>3 DEF SealsFounded
  <2> QED
    BY <1>2, <2>2, <2>4 DEF Sealable, Has
<1>13. RowsAreSealed'
  <2>1. ASSUME NEW r \in DOMAIN registries'
        PROVE Has(OwnerOf[r], registries'[r]) /\ Last(registries'[r]) = Seal("vcp", r)
    BY <1>1, <1>5, <1>9, <2>1 DEF RowsAreSealed
  <2>2. ASSUME NEW c \in DOMAIN iss'
        PROVE c \in credentials /\ Has(Issuer(c), iss'[c]) /\ Last(iss'[c]) = Seal("iss", c)
    BY <1>1, <1>5, <1>9, <2>2 DEF RowsAreSealed
  <2> QED
    BY <1>2, <2>1, <2>2 DEF RowsAreSealed, Has
<1>14. SealsServed'
  <2> SUFFICES ASSUME count'.failures = 0,
                      NEW x \in Owners, NEW e \in Range(log[x]) \ {<<>>}
               PROVE (StoredSeal(Last(e)) \/ \E y \in Callers : AboutToStore(y, Last(e)))'
    BY <1>2 DEF SealsServed
  <2>1. StoredSeal(Last(e)) \/ \E y \in Callers : AboutToStore(y, Last(e))
    BY <1>1, <1>2 DEF SealsServed
  <2>2. CASE StoredSeal(Last(e))
    <3>1. DOMAIN registries \subseteq DOMAIN registries' /\ DOMAIN iss \subseteq DOMAIN iss'
      BY <1>9
    <3> QED
      BY <2>2, <3>1 DEF StoredSeal
  <2>3. ASSUME NEW y \in Callers, AboutToStore(y, Last(e))
        PROVE StoredSeal(Last(e))' \/ AboutToStore(y, Last(e))'
    <3>1. CASE y = p
      <4>1. Last(e) = Last(event)
        BY <1>4, <2>3, <3>1 DEF AboutToStore
      <4>2. StoredSeal(Last(event))'
        BY <1>9 DEF StoredSeal
      <4> QED
        BY <4>1, <4>2
    <3>2. CASE y # p
      BY <1>7, <2>3, <3>2 DEF AboutToStore
    <3> QED
      BY <3>1, <3>2
  <2> QED
    BY <2>1, <2>2, <2>3
<1> QED
  BY <1>11, <1>12, <1>13, <1>14 DEF IInv

\* Nothing but inceptions is stored.
LEMMA Initially == Init => IInv
<1> SUFFICES ASSUME Init PROVE IInv
  OBVIOUS
<1>1. /\ log = [o \in Owners |-> <<<<>>>>]
      /\ registries = <<>> /\ iss = <<>>
      /\ credentials = {}
      /\ call = [p \in Callers |-> Idle]
      /\ count = [failures |-> 0, overlaps |-> 0, sends |-> 0]
  BY DEF Init
<1>2. <<<<>>>> \in Seq(Events) /\ <<<<>>>> # <<>> /\ Range(<<<<>>>>) = {<<>>}
  <2>1. <<>> \in Events
    BY Inception
  <2> QED
    BY <2>1 DEF Range
<1>3. Idle \in Calls /\ Idle.pc = "idle"
  BY DEF Calls, Idle
<1>4. DOMAIN registries = {} /\ DOMAIN iss = {}
  BY <1>1
<1>5. Typed
  BY <1>1, <1>2, <1>3, <1>4 DEF Typed
<1>6. SealsFounded
  BY <1>1, <1>3 DEF SealsFounded, IsSealing
<1>7. RowsAreSealed
  BY <1>4 DEF RowsAreSealed
<1>8. SealsServed
  BY <1>1, <1>2 DEF SealsServed
<1> QED
  BY <1>5, <1>6, <1>7, <1>8 DEF IInv

\* Every step keeps the invariant.
LEMMA Inductive == IInv /\ [Next]_vars => IInv'
<1> SUFFICES ASSUME IInv, [Next]_vars PROVE IInv'
  OBVIOUS
<1>1. CASE UNCHANGED vars
  BY <1>1 DEF vars, IInv, Typed, SealsFounded, IsSealing, Sealable, Has, RowsAreSealed, SealsServed,
     StoredSeal, AboutToStore
<1>2. ASSUME NEW c \in Credentials, CreateCredential(c) PROVE IInv'
  BY <1>2, CreateCredentialStep
<1>3. ASSUME NEW p \in Callers, NEW r \in Registries, CreateRegistry(p, r) PROVE IInv'
  BY <1>3, CreateRegistryStep
<1>4. ASSUME NEW p \in Callers, NEW c \in Credentials, IssueCredential(p, c) PROVE IInv'
  BY <1>4, IssueCredentialStep
<1>5. ASSUME NEW p \in Callers, NEW c \in Requested, SendCredentialArtifacts(p, c) PROVE IInv'
  BY <1>5, SendCredentialArtifactsStep
<1>6. ASSUME NEW p \in Callers, NEW c \in Requested, Grant(p, c) PROVE IInv'
  BY <1>6, GrantStep
<1>7. ASSUME NEW p \in Callers, Commit(p) PROVE IInv'
  BY <1>7, CommitStep
<1>8. ASSUME NEW p \in Callers, SendToWitness(p) PROVE IInv'
  BY <1>8, SendToWitnessStep
<1>9. ASSUME NEW p \in Callers, Store(p) PROVE IInv'
  BY <1>9, StoreStep
<1>10. ASSUME NEW p \in Callers, Expand(p) PROVE IInv'
  BY <1>10, ExpandStep
<1>11. ASSUME NEW p \in Callers, Forward(p) PROVE IInv'
  BY <1>11, ForwardStep
<1>12. ASSUME NEW p \in Callers, FailCommit(p) PROVE IInv'
  BY <1>12, FailCommitStep
<1>13. ASSUME NEW p \in Callers, Fail(p) PROVE IInv'
  BY <1>13, FailStep
<1> QED
  BY <1>1, <1>2, <1>3, <1>4, <1>5, <1>6, <1>7, <1>8, <1>9, <1>10, <1>11, <1>12, <1>13 DEF Next

\* The invariant holds in every reachable state.
LEMMA Invariant == Spec => []IInv
BY Initially, Inductive, PTL DEF Spec

\* createRegistry, issueCredential: every registry and issuance that is stored is
\* sealed, in the log of its owner, by the very event its couple names.
THEOREM Sealed == Spec => []RowsAreSealed
<1>1. IInv => RowsAreSealed
  BY DEF IInv
<1> QED
  BY <1>1, Invariant, PTL

\* A seal that is served has its row or a call about it.
LEMMA ServedIsStored == IInv => SealedIsStored
<1> SUFFICES ASSUME IInv, count.failures = 0,
                    NEW o \in Owners, NEW event \in Range(log[o]) \ {<<>>}
             PROVE \/ Last(event)[2] \in DOMAIN registries \cup DOMAIN iss
                   \/ \E p \in Callers : Subject(p) = Last(event)
  BY DEF SealedIsStored
<1>1. StoredSeal(Last(event)) \/ \E p \in Callers : AboutToStore(p, Last(event))
  BY DEF IInv, SealsServed
<1>2. CASE StoredSeal(Last(event))
  BY <1>2 DEF StoredSeal, Seal
<1>3. ASSUME NEW p \in Callers, AboutToStore(p, Last(event)) PROVE Subject(p) = Last(event)
  BY <1>3 DEF AboutToStore, Subject
<1> QED
  BY <1>1, <1>2, <1>3

\* As long as no request fails, every seal in a log has its registry or issuance
\* stored, or a call under way about it: commit and the store after it go together.
THEOREM Stored == Spec => []SealedIsStored
BY Invariant, ServedIsStored, PTL

-----------------------------------------------------------------------------
(* The order of messages, FoundedInOrder. What a call has still to send is as *)
(* founded as the box: every entry of it rests on the box or on an entry that *)
(* is due before it. A view is what that depends on.                         *)

Registered(c) == RegistryOf[c] \in DOMAIN registries

\* The events an issuance message or a grant of c names, or will name.
Wanted ==
    {w \in Credentials \X Events :
        \/ w[1] \in DOMAIN iss /\ w[2] = iss[w[1]]
        \/ \E q \in Callers : call[q].pc = "send" /\ Entry("grant", w[1], w[2]) \in Range(call[q].todo)}

View == [sent |-> Range(box), registries |-> registries, iss |-> iss,
         disturbed |-> disturbed, wanted |-> Wanted]

Some(S, type, id) == \E m \in S : m.type = type /\ m.id = id

KeyFounded(v, ahead, e) ==
    e.event # <<>> => Entry("key", e.id, Front(e.event)) \in v.sent \cup ahead

RegistryFounded(v, ahead, e) ==
    Entry("key", Issuer(e.id), v.registries[RegistryOf[e.id]]) \in v.sent \cup ahead

\* A source is sent for the sake of an issuance that comes later.
SourceNeeded(e, behind) ==
    \E d \in Credentials : Entry("iss", d, <<>>) \in behind /\ e.id \in Range(Sources[d])

SourceFounded(v, ahead, e) ==
    e.id \notin v.disturbed /\ e.id \in DOMAIN v.iss =>
        Some(v.sent, "iss", e.id) \/ Some(ahead, "artifacts", e.id) \/ Some(ahead, "iss", e.id)

IssuanceFounded(v, ahead, e) ==
    /\ Some(v.sent, "vcp", RegistryOf[e.id]) \/ Some(ahead, "vcp", e.id)
    /\ \A s \in Range(Sources[e.id]) \ v.disturbed :
          s \in DOMAIN v.iss =>
              Some(v.sent, "acdc", s) \/ Some(ahead, "source", s) \/ Some(ahead, "acdc", s)
    /\ e.id \notin v.disturbed =>
          \A w \in v.wanted : w[1] = e.id => Entry("key", Issuer(e.id), w[2]) \in v.sent \cup ahead

\* e rests on what is sent or ahead of it.
EntryFounded(v, ahead, e, behind) ==
    /\ e.type = "key" => KeyFounded(v, ahead, e)
    /\ e.type \in {"artifacts", "vcp"} => RegistryOf[e.id] \in DOMAIN v.registries
    /\ e.type = "vcp" => RegistryFounded(v, ahead, e)
    /\ e.type \in {"source", "acdc"} => SourceNeeded(e, behind)
    /\ e.type = "acdc" => SourceFounded(v, ahead, e)
    /\ e.type = "iss" => e.event = <<>> /\ IssuanceFounded(v, ahead, e)

Ahead(t, y) == {t[x] : x \in 1 .. y - 1}
Behind(t, y) == {t[x] : x \in y + 1 .. Len(t)}

TodoFounded(v, t) == \A y \in 1 .. Len(t) : EntryFounded(v, Ahead(t, y), t[y], Behind(t, y))

\* What arrives rests on what has arrived before.
MessageFounded(v, S, m) ==
    /\ m.type = "key" /\ m.event # <<>> => Entry("key", m.id, Front(m.event)) \in S
    /\ m.type = "vcp" => Entry("key", OwnerOf[m.id], m.event) \in S
    /\ m.type = "acdc" /\ m.id \notin v.disturbed => Some(S, "iss", m.id)
    /\ m.type = "iss" =>
          /\ Some(S, "vcp", RegistryOf[m.id])
          /\ m.id \notin v.disturbed => Entry("key", Issuer(m.id), m.event) \in S
          /\ \A s \in Range(Sources[m.id]) \ v.disturbed : s \in DOMAIN v.iss => Some(S, "acdc", s)
    /\ m.type = "grant" /\ m.id \notin v.disturbed /\ Some(S, "iss", m.id) =>
          Entry("key", Issuer(m.id), m.event) \in S

\* An issuance that has arrived after its sealing event goes with all it names.
IssuancesAnchored(v) ==
    \A w \in v.wanted : w[1] \notin v.disturbed /\ Some(v.sent, "iss", w[1]) =>
        Entry("key", Issuer(w[1]), w[2]) \in v.sent

\* A registry is sent under its own name, what is about a credential under its.
Messages ==
    [type : {"key"}, id : Owners, event : Events]
    \cup [type : {"vcp"}, id : Registries, event : Events]
    \cup [type : {"iss", "acdc", "grant"}, id : Credentials, event : Events]

\* Events in the order of their numbers, each after the one it was built on.
InOrder(rows) ==
    /\ \A x \in 1 .. Len(rows), y \in 1 .. Len(rows) : x < y => Len(rows[x]) <= Len(rows[y])
    /\ \A y \in 1 .. Len(rows) : rows[y] # <<>> => \E x \in 1 .. y - 1 : rows[x] = Front(rows[y])

LogsInOrder == \A o \in Owners : InOrder(log[o])

BuiltOnLog == \A p \in Callers : IsSealing(p) => Has(call[p].owner, Front(call[p].event))

\* A registry is made once.
MadeOnce ==
    \A p \in Callers, r \in Registries : IsSealing(p) /\ Last(call[p].event) = Seal("vcp", r) =>
        /\ r \notin DOMAIN registries
        /\ \A q \in Callers : IsSealing(q) /\ Last(call[q].event) = Seal("vcp", r) => q = p

LogInv ==
    /\ LogsInOrder
    /\ BuiltOnLog
    /\ MadeOnce
    /\ \A c \in credentials : Registered(c)
    /\ \A w \in Wanted : Has(Issuer(w[1]), w[2])

BoxFounded(v, b) == \A i \in 1 .. Len(b) : MessageFounded(v, Ahead(b, i), b[i])

SendInv ==
    /\ box \in Seq(Messages)
    /\ BoxFounded(View, box)
    /\ IssuancesAnchored(View)
    /\ \A q \in Callers : call[q].pc = "send" => TodoFounded(View, call[q].todo)

OInv == IInv /\ LogInv /\ SendInv

\* What the later view may not have of its own.
Later(v, w, T) ==
    /\ v.sent \subseteq w.sent
    /\ v.disturbed \subseteq w.disturbed
    /\ \A r \in DOMAIN v.registries : r \in DOMAIN w.registries /\ w.registries[r] = v.registries[r]
    /\ \A s \in DOMAIN w.iss \ DOMAIN v.iss :
          \/ s \in w.disturbed
          \/ \A d \in Credentials : Entry("iss", d, <<>>) \in T => d # s /\ s \notin Range(Sources[d])
    /\ \A x \in w.wanted \ v.wanted : x[1] \in w.disturbed \/ Entry("iss", x[1], <<>>) \notin T

\* An issuance that is due is the entry of its name.
LEMMA IssuanceEntry ==
    \A e \in Entries : e.type = "iss" /\ e.event = <<>> => e = Entry("iss", e.id, <<>>) /\ e.id \in Credentials
BY DEF Entries, Entry

\* An entry stays founded in a later view.
LEMMA EntryAged ==
    ASSUME NEW v, NEW w, NEW T, NEW ahead, NEW e \in Entries, NEW behind,
           e \in T, behind \subseteq T, Later(v, w, T), EntryFounded(v, ahead, e, behind)
    PROVE EntryFounded(w, ahead, e, behind)
<1>1. v.sent \subseteq w.sent /\ v.disturbed \subseteq w.disturbed
  BY DEF Later
<1>2. \A type, id : Some(v.sent, type, id) => Some(w.sent, type, id)
  BY <1>1 DEF Some
<1>3. CASE e.type = "key"
  BY <1>1, <1>3 DEF EntryFounded, KeyFounded
<1>4. CASE e.type \in {"artifacts", "vcp"}
  <2>1. RegistryOf[e.id] \in DOMAIN v.registries
    BY <1>4 DEF EntryFounded
  <2>2. RegistryOf[e.id] \in DOMAIN w.registries
        /\ w.registries[RegistryOf[e.id]] = v.registries[RegistryOf[e.id]]
    BY <2>1 DEF Later
  <2> QED
    BY <1>1, <1>4, <2>1, <2>2 DEF EntryFounded, RegistryFounded
<1>5. CASE e.type = "source"
  BY <1>5 DEF EntryFounded
<1>6. CASE e.type = "acdc"
  <2>1. SourceNeeded(e, behind) /\ SourceFounded(v, ahead, e)
    BY <1>6 DEF EntryFounded
  <2>2. PICK d \in Credentials : Entry("iss", d, <<>>) \in T /\ e.id \in Range(Sources[d])
    BY <2>1 DEF SourceNeeded
  <2>3. ASSUME e.id \notin w.disturbed, e.id \in DOMAIN w.iss PROVE e.id \in DOMAIN v.iss
    BY <2>2, <2>3 DEF Later
  <2>4. SourceFounded(w, ahead, e)
    BY <1>1, <1>2, <2>1, <2>3 DEF SourceFounded
  <2> QED
    BY <1>6, <2>1, <2>4 DEF EntryFounded
<1>7. CASE e.type = "iss"
  <2>1. e.event = <<>> /\ IssuanceFounded(v, ahead, e)
    BY <1>7 DEF EntryFounded
  <2>2. Entry("iss", e.id, <<>>) \in T /\ e.id \in Credentials
    BY <1>7, <2>1, IssuanceEntry
  <2>3. \A s \in Range(Sources[e.id]) \ w.disturbed : s \in DOMAIN w.iss => s \in DOMAIN v.iss
    BY <2>2 DEF Later
  <2>4. e.id \notin w.disturbed => \A x \in w.wanted : x[1] = e.id => x \in v.wanted
    BY <2>2 DEF Later
  <2>5. Some(w.sent, "vcp", RegistryOf[e.id]) \/ Some(ahead, "vcp", e.id)
    BY <1>2, <2>1 DEF IssuanceFounded
  <2>6. \A s \in Range(Sources[e.id]) \ w.disturbed : s \in DOMAIN w.iss =>
            Some(w.sent, "acdc", s) \/ Some(ahead, "source", s) \/ Some(ahead, "acdc", s)
    BY <1>1, <1>2, <2>1, <2>3 DEF IssuanceFounded
  <2>7. e.id \notin w.disturbed =>
            \A x \in w.wanted : x[1] = e.id => Entry("key", Issuer(e.id), x[2]) \in w.sent \cup ahead
    BY <1>1, <2>1, <2>4 DEF IssuanceFounded
  <2>8. IssuanceFounded(w, ahead, e)
    BY <2>5, <2>6, <2>7 DEF IssuanceFounded
  <2> QED
    BY <1>7, <2>1, <2>8 DEF EntryFounded
<1>8. CASE e.type = "grant"
  BY <1>8 DEF EntryFounded
<1> QED
  BY <1>3, <1>4, <1>5, <1>6, <1>7, <1>8 DEF Entries

\* So does all that a call has still to send.
LEMMA TodoAged ==
    ASSUME NEW v, NEW w, NEW t \in Seq(Entries), TodoFounded(v, t), Later(v, w, Range(t))
    PROVE TodoFounded(w, t)
<1>1. Len(t) \in Nat /\ DOMAIN t = 1 .. Len(t) /\ \A y \in 1 .. Len(t) : t[y] \in Entries
  BY LenProperties, ElementOfSeq
<1> SUFFICES ASSUME NEW y \in 1 .. Len(t) PROVE EntryFounded(w, Ahead(t, y), t[y], Behind(t, y))
  BY DEF TodoFounded
<1>2. t[y] \in Range(t) /\ Behind(t, y) \subseteq Range(t)
  BY <1>1 DEF Range, Behind
<1>3. EntryFounded(v, Ahead(t, y), t[y], Behind(t, y))
  BY DEF TodoFounded
<1> QED
  BY <1>1, <1>2, <1>3, EntryAged

\* New entries, or none, and messages sent make up for an entry that was ahead.
Covers(v, w, h, N) ==
    /\ v.sent \subseteq w.sent /\ w.wanted \subseteq v.wanted
    /\ w.registries = v.registries /\ w.iss = v.iss /\ w.disturbed = v.disturbed
    /\ h.type = "key" => h \in w.sent \cup N
    /\ h.type = "vcp" => Some(w.sent, "vcp", RegistryOf[h.id]) \/ Some(N, "vcp", h.id)
    /\ h.type \in {"artifacts", "iss"} /\ h.id \in DOMAIN v.iss => Some(w.sent, "iss", h.id) \/ Some(N, "iss", h.id)
    /\ h.type \in {"source", "acdc"} /\ h.id \in DOMAIN v.iss => Some(w.sent, "acdc", h.id) \/ Some(N, "acdc", h.id)

\* What was founded with the entry ahead of it is founded without.
LEMMA Covered ==
    ASSUME NEW v, NEW w, NEW h, NEW N, Covers(v, w, h, N),
           NEW ahead, NEW e \in Entries, NEW behind, EntryFounded(v, ahead \cup {h}, e, behind)
    PROVE EntryFounded(w, ahead \cup N, e, behind)
<1>1. /\ v.sent \subseteq w.sent /\ w.wanted \subseteq v.wanted
      /\ w.registries = v.registries /\ w.iss = v.iss /\ w.disturbed = v.disturbed
  BY DEF Covers
<1>2. \A type, id : /\ Some(v.sent, type, id) => Some(w.sent, type, id)
                    /\ Some(ahead, type, id) => Some(ahead \cup N, type, id)
                    /\ Some(N, type, id) => Some(ahead \cup N, type, id)
                    /\ Some(ahead \cup {h}, type, id) => Some(ahead, type, id) \/ (h.type = type /\ h.id = id)
  BY <1>1 DEF Some
<1>3. \A o, event : Entry("key", o, event) \in v.sent \cup (ahead \cup {h}) =>
                       Entry("key", o, event) \in w.sent \cup (ahead \cup N)
  <2> SUFFICES ASSUME NEW o, NEW event, h = Entry("key", o, event) PROVE h \in w.sent \cup N
    BY <1>1
  <2> QED
    BY DEF Covers, Entry
<1>4. CASE e.type = "key"
  BY <1>3, <1>4 DEF EntryFounded, KeyFounded
<1>5. CASE e.type \in {"artifacts", "vcp"}
  BY <1>1, <1>3, <1>5 DEF EntryFounded, RegistryFounded
<1>6. CASE e.type = "source"
  BY <1>6 DEF EntryFounded
<1>7. CASE e.type = "acdc"
  <2>1. SourceNeeded(e, behind) /\ SourceFounded(v, ahead \cup {h}, e)
    BY <1>7 DEF EntryFounded
  <2>2. SourceFounded(w, ahead \cup N, e)
    <3> SUFFICES ASSUME e.id \notin w.disturbed, e.id \in DOMAIN w.iss
                 PROVE Some(w.sent, "iss", e.id) \/ Some(ahead \cup N, "artifacts", e.id) \/ Some(ahead \cup N, "iss", e.id)
      BY DEF SourceFounded
    <3>1. Some(v.sent, "iss", e.id) \/ Some(ahead \cup {h}, "artifacts", e.id) \/ Some(ahead \cup {h}, "iss", e.id)
      BY <1>1, <2>1 DEF SourceFounded
    <3>2. CASE h.type \in {"artifacts", "iss"} /\ h.id = e.id
      BY <1>1, <1>2, <3>2 DEF Covers
    <3> QED
      BY <1>2, <3>1, <3>2
  <2> QED
    BY <1>7, <2>1, <2>2 DEF EntryFounded
<1>8. CASE e.type = "iss"
  <2>1. e.event = <<>> /\ IssuanceFounded(v, ahead \cup {h}, e)
    BY <1>8 DEF EntryFounded
  <2>2. Some(w.sent, "vcp", RegistryOf[e.id]) \/ Some(ahead \cup N, "vcp", e.id)
    <3>1. Some(v.sent, "vcp", RegistryOf[e.id]) \/ Some(ahead \cup {h}, "vcp", e.id)
      BY <2>1 DEF IssuanceFounded
    <3>2. CASE h.type = "vcp" /\ h.id = e.id
      BY <1>2, <3>2 DEF Covers
    <3> QED
      BY <1>2, <3>1, <3>2
  <2>3. ASSUME NEW s \in Range(Sources[e.id]) \ w.disturbed, s \in DOMAIN w.iss
        PROVE Some(w.sent, "acdc", s) \/ Some(ahead \cup N, "source", s) \/ Some(ahead \cup N, "acdc", s)
    <3>1. Some(v.sent, "acdc", s) \/ Some(ahead \cup {h}, "source", s) \/ Some(ahead \cup {h}, "acdc", s)
      BY <1>1, <2>1, <2>3 DEF IssuanceFounded
    <3>2. CASE h.type \in {"source", "acdc"} /\ h.id = s
      BY <1>1, <1>2, <2>3, <3>2 DEF Covers
    <3> QED
      BY <1>2, <3>1, <3>2
  <2>4. e.id \notin w.disturbed =>
            \A x \in w.wanted : x[1] = e.id => Entry("key", Issuer(e.id), x[2]) \in w.sent \cup (ahead \cup N)
    BY <1>1, <1>3, <2>1 DEF IssuanceFounded
  <2>5. IssuanceFounded(w, ahead \cup N, e)
    BY <2>2, <2>3, <2>4 DEF IssuanceFounded
  <2> QED
    BY <1>8, <2>1, <2>5 DEF EntryFounded
<1>9. CASE e.type = "grant"
  BY <1>9 DEF EntryFounded
<1> QED
  BY <1>4, <1>5, <1>6, <1>7, <1>8, <1>9 DEF Entries

\* The parts of an entry.
LEMMA EntryFields ==
    \A type, id, event :
        /\ Entry(type, id, event).type = type
        /\ Entry(type, id, event).id = id
        /\ Entry(type, id, event).event = event
BY DEF Entry

\* The entries of two sequences, by position.
LEMMA ConcatByPosition ==
    ASSUME NEW S, NEW a \in Seq(S), NEW b \in Seq(S)
    PROVE /\ a \o b \in Seq(S)
          /\ Len(a \o b) = Len(a) + Len(b)
          /\ \A y \in 1 .. Len(a) : (a \o b)[y] = a[y]
          /\ \A y \in 1 .. Len(b) : (a \o b)[Len(a) + y] = b[y]
<1>1. Len(a) \in Nat /\ Len(b) \in Nat
  BY LenProperties
<1>2. /\ a \o b \in Seq(S)
      /\ Len(a \o b) = Len(a) + Len(b)
      /\ \A i \in 1 .. Len(a) + Len(b) : (a \o b)[i] = IF i <= Len(a) THEN a[i] ELSE b[i - Len(a)]
  BY ConcatProperties
<1> DEFINE n == Len(a)
           m == Len(b)
           c == a \o b
<1> HIDE DEF n, m, c
<1>3. n \in Nat /\ m \in Nat /\ \A i \in 1 .. n + m : c[i] = IF i <= n THEN a[i] ELSE b[i - n]
  BY <1>1, <1>2 DEF n, m, c
<1>4. \A y \in 1 .. n : c[y] = a[y]
  BY <1>3
<1>5. ASSUME NEW y \in 1 .. m PROVE c[n + y] = b[y]
  <2>1. n + y \in 1 .. n + m /\ ~(n + y <= n) /\ (n + y) - n = y
    BY <1>3
  <2> QED
    BY <1>3, <2>1
<1> QED
  BY <1>2, <1>4, <1>5 DEF n, m, c

\* What is ahead of and behind an entry of two sequences.
LEMMA AheadInConcat ==
    ASSUME NEW S, NEW a \in Seq(S), NEW b \in Seq(S)
    PROVE /\ \A y \in 1 .. Len(a) : /\ Ahead(a \o b, y) = Ahead(a, y)
                                    /\ Behind(a \o b, y) = Behind(a, y) \cup Range(b)
          /\ \A y \in 1 .. Len(b) : /\ Ahead(a \o b, Len(a) + y) = Ahead(b, y) \cup Range(a)
                                    /\ Behind(a \o b, Len(a) + y) = Behind(b, y)
<1>1. /\ Len(a) \in Nat /\ DOMAIN a = 1 .. Len(a)
      /\ Len(b) \in Nat /\ DOMAIN b = 1 .. Len(b)
  BY LenProperties
<1> DEFINE n == Len(a)
           m == Len(b)
           c == a \o b
<1>2. /\ Len(c) = n + m
      /\ \A y \in 1 .. n : c[y] = a[y]
      /\ \A y \in 1 .. m : c[n + y] = b[y]
  BY ConcatByPosition
<1>3. n \in Nat /\ m \in Nat /\ Range(a) = {a[x] : x \in 1 .. n} /\ Range(b) = {b[x] : x \in 1 .. m}
  BY <1>1 DEF Range
<1> HIDE DEF n, m, c
<1>4. ASSUME NEW y \in 1 .. n
      PROVE /\ {c[x] : x \in 1 .. y - 1} = {a[x] : x \in 1 .. y - 1}
            /\ {c[x] : x \in y + 1 .. n + m} = {a[x] : x \in y + 1 .. n} \cup {b[x] : x \in 1 .. m}
  <2>1. \A x \in 1 .. y - 1 : c[x] = a[x]
    BY <1>2, <1>3
  <2>2. \A x \in y + 1 .. n : x \in y + 1 .. n + m /\ c[x] = a[x]
    BY <1>2, <1>3
  <2>3. \A x \in 1 .. m : n + x \in y + 1 .. n + m /\ c[n + x] = b[x]
    BY <1>2, <1>3
  <2>4. \A x \in y + 1 .. n + m : x \in y + 1 .. n \/ \E z \in 1 .. m : x = n + z
    <3> SUFFICES ASSUME NEW x \in y + 1 .. n + m, ~(x \in y + 1 .. n) PROVE \E z \in 1 .. m : x = n + z
      OBVIOUS
    <3>1. x - n \in 1 .. m /\ x = n + (x - n)
      BY <1>3
    <3> QED
      BY <3>1
  <2>5. \A u \in {c[x] : x \in y + 1 .. n + m} : u \in {a[x] : x \in y + 1 .. n} \cup {b[x] : x \in 1 .. m}
    BY <2>2, <2>3, <2>4
  <2>6. \A u \in {a[x] : x \in y + 1 .. n} \cup {b[x] : x \in 1 .. m} : u \in {c[x] : x \in y + 1 .. n + m}
    BY <2>2, <2>3
  <2> QED
    BY <2>1, <2>5, <2>6
<1>5. ASSUME NEW y \in 1 .. m
      PROVE /\ {c[x] : x \in 1 .. (n + y) - 1} = {b[x] : x \in 1 .. y - 1} \cup {a[x] : x \in 1 .. n}
            /\ {c[x] : x \in (n + y) + 1 .. n + m} = {b[x] : x \in y + 1 .. m}
  <2>1. \A x \in 1 .. n : x \in 1 .. (n + y) - 1 /\ c[x] = a[x]
    BY <1>2, <1>3
  <2>2. \A x \in 1 .. y - 1 : n + x \in 1 .. (n + y) - 1 /\ c[n + x] = b[x]
    BY <1>2, <1>3
  <2>3. \A x \in 1 .. (n + y) - 1 : x \in 1 .. n \/ \E z \in 1 .. y - 1 : x = n + z
    <3> SUFFICES ASSUME NEW x \in 1 .. (n + y) - 1, ~(x \in 1 .. n) PROVE \E z \in 1 .. y - 1 : x = n + z
      OBVIOUS
    <3>1. x - n \in 1 .. y - 1 /\ x = n + (x - n)
      BY <1>3
    <3> QED
      BY <3>1
  <2>4. \A x \in y + 1 .. m : n + x \in (n + y) + 1 .. n + m /\ c[n + x] = b[x]
    BY <1>2, <1>3
  <2>5. \A x \in (n + y) + 1 .. n + m : \E z \in y + 1 .. m : x = n + z
    <3> SUFFICES ASSUME NEW x \in (n + y) + 1 .. n + m PROVE \E z \in y + 1 .. m : x = n + z
      OBVIOUS
    <3>1. x - n \in y + 1 .. m /\ x = n + (x - n)
      BY <1>3
    <3> QED
      BY <3>1
  <2>6. \A u \in {c[x] : x \in 1 .. (n + y) - 1} : u \in {b[x] : x \in 1 .. y - 1} \cup {a[x] : x \in 1 .. n}
    BY <2>1, <2>2, <2>3
  <2>7. \A u \in {b[x] : x \in 1 .. y - 1} \cup {a[x] : x \in 1 .. n} : u \in {c[x] : x \in 1 .. (n + y) - 1}
    BY <2>1, <2>2
  <2>8. \A u \in {c[x] : x \in (n + y) + 1 .. n + m} : u \in {b[x] : x \in y + 1 .. m}
    BY <2>4, <2>5
  <2>9. \A u \in {b[x] : x \in y + 1 .. m} : u \in {c[x] : x \in (n + y) + 1 .. n + m}
    BY <2>4
  <2>10. {c[x] : x \in 1 .. (n + y) - 1} = {b[x] : x \in 1 .. y - 1} \cup {a[x] : x \in 1 .. n}
    BY <2>6, <2>7
  <2>11. {c[x] : x \in (n + y) + 1 .. n + m} = {b[x] : x \in y + 1 .. m}
    BY <2>8, <2>9
  <2> QED
    BY <2>10, <2>11
<1>6. \A y : Ahead(c, y) = {c[x] : x \in 1 .. y - 1} /\ Behind(c, y) = {c[x] : x \in y + 1 .. n + m}
  BY <1>2 DEF Ahead, Behind
<1>7. \A y : Ahead(a, y) = {a[x] : x \in 1 .. y - 1} /\ Behind(a, y) = {a[x] : x \in y + 1 .. n}
  BY DEF Ahead, Behind, n
<1>8. \A y : Ahead(b, y) = {b[x] : x \in 1 .. y - 1} /\ Behind(b, y) = {b[x] : x \in y + 1 .. m}
  BY DEF Ahead, Behind, m
<1>9. \A y \in 1 .. n : Ahead(c, y) = Ahead(a, y) /\ Behind(c, y) = Behind(a, y) \cup Range(b)
  BY <1>3, <1>4, <1>6, <1>7
<1>10. \A y \in 1 .. m : Ahead(c, n + y) = Ahead(b, y) \cup Range(a) /\ Behind(c, n + y) = Behind(b, y)
  BY <1>3, <1>5, <1>6, <1>8
<1> QED
  BY <1>9, <1>10 DEF n, m, c

\* c is a followed by b.
Joined(a, b, c) ==
    /\ Len(c) = Len(a) + Len(b)
    /\ \A y \in 1 .. Len(a) : /\ c[y] = a[y]
                              /\ Ahead(c, y) = Ahead(a, y)
                              /\ Behind(c, y) = Behind(a, y) \cup Range(b)
    /\ \A y \in 1 .. Len(b) : /\ c[Len(a) + y] = b[y]
                              /\ Ahead(c, Len(a) + y) = Ahead(b, y) \cup Range(a)
                              /\ Behind(c, Len(a) + y) = Behind(b, y)

\* Of entries.
LEMMA JoinedEntries ==
    ASSUME NEW a \in Seq(Entries), NEW b \in Seq(Entries)
    PROVE a \o b \in Seq(Entries) /\ Joined(a, b, a \o b)
<1>1. /\ a \o b \in Seq(Entries)
      /\ Len(a \o b) = Len(a) + Len(b)
      /\ \A y \in 1 .. Len(a) : (a \o b)[y] = a[y]
      /\ \A y \in 1 .. Len(b) : (a \o b)[Len(a) + y] = b[y]
  BY ONLY ConcatByPosition, a \in Seq(Entries), b \in Seq(Entries)
<1>2. /\ \A y \in 1 .. Len(a) : /\ Ahead(a \o b, y) = Ahead(a, y)
                                /\ Behind(a \o b, y) = Behind(a, y) \cup Range(b)
      /\ \A y \in 1 .. Len(b) : /\ Ahead(a \o b, Len(a) + y) = Ahead(b, y) \cup Range(a)
                                /\ Behind(a \o b, Len(a) + y) = Behind(b, y)
  BY ONLY AheadInConcat, a \in Seq(Entries), b \in Seq(Entries)
<1> QED
  BY <1>1, <1>2 DEF Joined

\* Entries of either are all there are.
LEMMA RangeJoined ==
    ASSUME NEW a \in Seq(Entries), NEW b \in Seq(Entries)
    PROVE Range(a \o b) = Range(a) \cup Range(b)
<1>1. PICK c : c = a \o b
  OBVIOUS
<1>2. c \in Seq(Entries) /\ Joined(a, b, c)
  BY <1>1, JoinedEntries
<1>3. /\ Len(a) \in Nat /\ DOMAIN a = 1 .. Len(a)
      /\ Len(b) \in Nat /\ DOMAIN b = 1 .. Len(b)
      /\ DOMAIN c = 1 .. Len(c)
  BY <1>2, LenProperties
<1>4. Len(c) = Len(a) + Len(b)
  BY <1>2 DEF Joined
<1>5. ASSUME NEW y \in 1 .. Len(c) PROVE c[y] \in Range(a) \cup Range(b)
  <2>1. CASE y \in 1 .. Len(a)
    BY <1>2, <1>3, <2>1 DEF Joined, Range
  <2>2. CASE ~(y \in 1 .. Len(a))
    <3>1. y - Len(a) \in 1 .. Len(b) /\ y = Len(a) + (y - Len(a))
      BY <1>3, <1>4, <2>2
    <3>2. PICK x \in 1 .. Len(b) : y = Len(a) + x
      BY <3>1
    <3>3. c[y] = b[x]
      BY <1>2, <3>2 DEF Joined
    <3> QED
      BY <1>3, <3>2, <3>3 DEF Range
  <2> QED
    BY <2>1, <2>2
<1>6. \A y \in 1 .. Len(a) : y \in DOMAIN c /\ c[y] = a[y]
  BY <1>2, <1>3, <1>4 DEF Joined
<1>7. \A y \in 1 .. Len(b) : Len(a) + y \in DOMAIN c /\ c[Len(a) + y] = b[y]
  <2>1. \A y \in 1 .. Len(b) : Len(a) + y \in DOMAIN c
    BY <1>3, <1>4
  <2> QED
    BY <1>2, <2>1 DEF Joined
<1>8. /\ Range(a) = {a[y] : y \in 1 .. Len(a)}
      /\ Range(b) = {b[y] : y \in 1 .. Len(b)}
      /\ Range(c) = {c[y] : y \in 1 .. Len(c)}
  BY <1>3 DEF Range
<1>9. Range(c) \subseteq Range(a) \cup Range(b)
  BY <1>5, <1>8
<1>10. Range(a) \cup Range(b) \subseteq Range(c)
  BY <1>3, <1>6, <1>7, <1>8
<1> QED
  BY <1>1, <1>9, <1>10

\* Other entries take the place of the first one, or none do.
LEMMA Refilled ==
    ASSUME NEW v, NEW w, NEW t \in Seq(Entries), t # <<>>, NEW new \in Seq(Entries),
           TodoFounded(v, t), Covers(v, w, Head(t), Range(new)),
           \A y \in 1 .. Len(new) : EntryFounded(w, Ahead(new, y), new[y], Behind(new, y) \cup Range(Tail(t)))
    PROVE TodoFounded(w, new \o Tail(t))
<1> DEFINE h == Head(t)
           r == Tail(t)
           todo == new \o r
<1>1. h \in Entries /\ r \in Seq(Entries)
  BY HeadTailProperties
<1>2. t = <<h>> \o r
  BY HeadTailProperties
<1>3. <<h>> \in Seq(Entries) /\ Len(<<h>>) = 1 /\ Range(<<h>>) = {h}
  BY <1>1 DEF Range
<1>4. Len(r) \in Nat /\ Len(new) \in Nat
  BY <1>1, LenProperties
<1>h. h = Head(t) /\ r = Tail(t)
  OBVIOUS
<1> HIDE DEF h, r
<1>5. /\ Len(t) = 1 + Len(r)
      /\ \A y \in 1 .. Len(r) : t[1 + y] = r[y]
      /\ \A y \in 1 .. Len(r) : Ahead(t, 1 + y) = Ahead(r, y) \cup {h} /\ Behind(t, 1 + y) = Behind(r, y)
  <2>1. PICK a : a = <<h>>
    OBVIOUS
  <2>2. a \in Seq(Entries) /\ Len(a) = 1 /\ Range(a) = {h} /\ t = a \o r
    BY <1>2, <1>3, <2>1
  <2>3. Joined(a, r, t)
    BY <1>1, <2>2, JoinedEntries
  <2> QED
    BY <2>2, <2>3 DEF Joined
<1>6. Joined(new, r, todo)
  BY <1>1, JoinedEntries
<1>7. /\ Len(todo) = Len(new) + Len(r)
      /\ \A y \in 1 .. Len(new) : /\ todo[y] = new[y]
                                  /\ Ahead(todo, y) = Ahead(new, y)
                                  /\ Behind(todo, y) = Behind(new, y) \cup Range(r)
      /\ \A y \in 1 .. Len(r) : /\ todo[Len(new) + y] = r[y]
                                /\ Ahead(todo, Len(new) + y) = Ahead(r, y) \cup Range(new)
                                /\ Behind(todo, Len(new) + y) = Behind(r, y)
  BY <1>6 DEF Joined
<1> HIDE DEF todo
<1>8. ASSUME NEW y \in 1 .. Len(new) PROVE EntryFounded(w, Ahead(todo, y), todo[y], Behind(todo, y))
  BY <1>7, <1>h
<1>9. ASSUME NEW y \in 1 .. Len(r)
      PROVE EntryFounded(w, Ahead(todo, Len(new) + y), todo[Len(new) + y], Behind(todo, Len(new) + y))
  <2>1. 1 + y \in 1 .. Len(t)
    BY <1>4, <1>5
  <2>2. EntryFounded(v, Ahead(r, y) \cup {h}, r[y], Behind(r, y))
    BY <1>5, <2>1 DEF TodoFounded
  <2>3. r[y] \in Entries
    BY <1>1, ElementOfSeq
  <2>4. EntryFounded(w, Ahead(r, y) \cup Range(new), r[y], Behind(r, y))
    BY <1>h, <2>2, <2>3, Covered
  <2> QED
    BY <1>7, <2>4
<1>10. \A y \in 1 .. Len(todo) : y \in 1 .. Len(new) \/ \E x \in 1 .. Len(r) : y = Len(new) + x
  <2> SUFFICES ASSUME NEW y \in 1 .. Len(todo), ~(y \in 1 .. Len(new)) PROVE \E x \in 1 .. Len(r) : y = Len(new) + x
    OBVIOUS
  <2>1. y - Len(new) \in 1 .. Len(r) /\ y = Len(new) + (y - Len(new))
    BY <1>4, <1>7
  <2> QED
    BY <2>1
<1>11. TodoFounded(w, todo)
  BY <1>8, <1>9, <1>10 DEF TodoFounded
<1> QED
  BY <1>11, <1>h DEF todo

\* The entries of a function of a sequence's positions.
LEMMA Mapped ==
    ASSUME NEW S, NEW s \in Seq(S), NEW T, NEW f, f = [i \in DOMAIN s |-> f[i]],
           \A i \in DOMAIN s : f[i] \in T
    PROVE f \in Seq(T) /\ Len(f) = Len(s)
<1>1. Len(s) \in Nat /\ DOMAIN s = 1 .. Len(s)
  BY LenProperties
<1>2. f \in [1 .. Len(s) -> T]
  BY <1>1
<1>3. f \in Seq(T)
  BY <1>1, <1>2, SeqDef
<1>4. DOMAIN f = 1 .. Len(f) /\ Len(f) \in Nat
  BY <1>3, LenProperties
<1>5. Len(f) = Len(s)
  BY <1>1, <1>2, <1>4
<1> QED
  BY <1>3, <1>5

\* The sources, the log, the registry and the issuance.
Parts(c, owner, l, a, b, d) ==
    /\ Artifacts(c) = (a \o b) \o d
    /\ Len(a) = Len(Sources[c])
    /\ \A y \in 1 .. Len(a) : a[y] = Entry("source", Sources[c][y], <<>>)
    /\ Len(b) = Len(l)
    /\ \A y \in 1 .. Len(b) : b[y] = Entry("key", owner, l[y])
    /\ Len(d) = 2 /\ d[1] = Entry("vcp", c, <<>>) /\ d[2] = Entry("iss", c, <<>>)
    /\ Range(d) = {Entry("vcp", c, <<>>), Entry("iss", c, <<>>)}

\* These are the artifacts.
LEMMA ArtifactsShape ==
    ASSUME Typed, NEW c \in Credentials, NEW owner, NEW l, owner = Issuer(c), l = log[owner]
    PROVE \E a, b, d \in Seq(Entries) : Parts(c, owner, l, a, b, d)
<1>1. owner \in Owners /\ Sources[c] \in Seq(Credentials)
  BY Issuers, IssuanceAssumption
<1>2. l \in Seq(Events) /\ owner \in Owners /\ Sources[c] \in Seq(Credentials)
  BY <1>1 DEF Typed
<1>3. PICK a, b, d :
          /\ a = [i \in DOMAIN Sources[c] |-> Entry("source", Sources[c][i], <<>>)]
          /\ b = [i \in DOMAIN l |-> Entry("key", owner, l[i])]
          /\ d = <<Entry("vcp", c, <<>>), Entry("iss", c, <<>>)>>
  OBVIOUS
<1>4. /\ a \in Seq(Entries) /\ Len(a) = Len(Sources[c])
      /\ \A y \in 1 .. Len(a) : a[y] = Entry("source", Sources[c][y], <<>>)
  <2>1. DOMAIN Sources[c] = 1 .. Len(Sources[c])
    BY <1>2, LenProperties
  <2>2. PICK list : list = Sources[c]
    OBVIOUS
  <2>3. list \in Seq(Credentials) /\ DOMAIN list = 1 .. Len(list) /\ a = [i \in DOMAIN list |-> Entry("source", list[i], <<>>)]
    BY <1>2, <1>3, <2>1, <2>2
  <2>4. \A i \in DOMAIN list : a[i] = Entry("source", list[i], <<>>) /\ a[i] \in Entries
    BY <2>3, ElementOfSeq, CredentialEntry, Inception
  <2>5. a \in Seq(Entries) /\ Len(a) = Len(list)
    BY <2>3, <2>4, Mapped
  <2> QED
    BY <2>2, <2>3, <2>4, <2>5
<1>5. /\ b \in Seq(Entries) /\ Len(b) = Len(l)
       /\ \A y \in 1 .. Len(b) : b[y] = Entry("key", owner, l[y])
  <2>1. DOMAIN l = 1 .. Len(l) /\ l \in Seq(Events) /\ owner \in Owners
    BY <1>2, LenProperties
  <2>2. b = [i \in DOMAIN l |-> Entry("key", owner, l[i])]
    BY <1>3
  <2>3. \A i \in DOMAIN l : b[i] = Entry("key", owner, l[i]) /\ b[i] \in Entries
    BY <2>1, <2>2, ElementOfSeq, KeyEntry
  <2>4. b = [i \in DOMAIN l |-> b[i]]
    BY <2>2
  <2>5. b \in Seq(Entries) /\ Len(b) = Len(l)
    <3>1. l \in Seq(Events) /\ \A i \in DOMAIN l : b[i] \in Entries
      BY <2>1, <2>3
    <3> QED
      BY ONLY <2>4, <3>1, Mapped
  <2> QED
    BY <2>1, <2>3, <2>5
<1>6. /\ d \in Seq(Entries) /\ Len(d) = 2
       /\ d[1] = Entry("vcp", c, <<>>) /\ d[2] = Entry("iss", c, <<>>)
       /\ Range(d) = {Entry("vcp", c, <<>>), Entry("iss", c, <<>>)}
  <2>1. Entry("vcp", c, <<>>) \in Entries /\ Entry("iss", c, <<>>) \in Entries
    BY CredentialEntry, Inception
  <2> QED
    BY <1>3, <2>1 DEF Range
<1>7. Artifacts(c) = (a \o b) \o d
  BY <1>3 DEF Artifacts
<1> QED
  BY <1>4, <1>5, <1>6, <1>7 DEF Parts

\* sendCredentialArtifacts: what a credential's artifacts rest on is stored or goes
\* before them.
LEMMA ArtifactsFounded ==
    ASSUME Typed, RowsAreSealed, LogInv, NEW c \in Credentials, Registered(c), NEW X
    PROVE \A y \in 1 .. Len(Artifacts(c)) :
              EntryFounded(View, Ahead(Artifacts(c), y), Artifacts(c)[y], Behind(Artifacts(c), y) \cup X)
<1>1. PICK v : v = View
  OBVIOUS
<1>2. PICK owner, l : owner = Issuer(c) /\ l = log[owner]
  OBVIOUS
<1>3. owner \in Owners /\ Sources[c] \in Seq(Credentials)
  BY <1>2, Issuers, IssuanceAssumption
<1>4. PICK a, b, d \in Seq(Entries) : Parts(c, owner, l, a, b, d)
  BY <1>2, ArtifactsShape
<1>5. a \in Seq(Entries) /\ Len(a) = Len(Sources[c]) /\ \A y \in 1 .. Len(a) : a[y] = Entry("source", Sources[c][y], <<>>)
  BY <1>4 DEF Parts
<1>6. b \in Seq(Entries) /\ Len(b) = Len(l) /\ \A y \in 1 .. Len(b) : b[y] = Entry("key", owner, l[y])
  BY <1>4 DEF Parts
<1>7. /\ d \in Seq(Entries) /\ Len(d) = 2 /\ d[1] = Entry("vcp", c, <<>>) /\ d[2] = Entry("iss", c, <<>>)
       /\ Range(d) = {Entry("vcp", c, <<>>), Entry("iss", c, <<>>)}
  BY <1>4 DEF Parts
<1>8. Artifacts(c) = (a \o b) \o d /\ owner \in Owners /\ l \in Seq(Events) /\ owner = Issuer(c) /\ l = log[owner]
  BY <1>2, <1>3, <1>4 DEF Typed, Parts
<1>9. a \o b \in Seq(Entries) /\ Joined(a, b, a \o b)
  BY <1>5, <1>6, JoinedEntries
<1>10. PICK ab : ab = a \o b
  OBVIOUS
<1>11. ab \in Seq(Entries) /\ Joined(a, b, ab)
  BY <1>9, <1>10
<1>12. PICK all : all = Artifacts(c)
  OBVIOUS
<1>13. Joined(ab, d, all)
  BY <1>7, <1>8, <1>10, <1>11, <1>12, JoinedEntries
<1>14. /\ Len(all) = Len(ab) + 2
       /\ \A y \in 1 .. Len(ab) : /\ all[y] = ab[y]
                                  /\ Ahead(all, y) = Ahead(ab, y)
                                  /\ Behind(all, y) = Behind(ab, y) \cup Range(d)
       /\ \A y \in 1 .. 2 : all[Len(ab) + y] = d[y] /\ Ahead(all, Len(ab) + y) = Ahead(d, y) \cup Range(ab)
  BY <1>7, <1>13 DEF Joined
<1>15. /\ Len(a) \in Nat /\ Len(b) \in Nat /\ Len(ab) = Len(a) + Len(b)
       /\ \A y \in 1 .. Len(b) : Ahead(ab, Len(a) + y) = Ahead(b, y) \cup Range(a)
  BY <1>5, <1>6, <1>11, LenProperties DEF Joined
<1>16. /\ \A x \in 1 .. Len(a) : ab[x] = a[x] /\ a[x] \in Range(ab)
       /\ \A x \in 1 .. Len(b) : ab[Len(a) + x] = b[x] /\ b[x] \in Range(ab)
  <2>1. DOMAIN ab = 1 .. Len(a) + Len(b)
    BY <1>11, <1>15, LenProperties
  <2>2. \A x \in 1 .. Len(a) : x \in DOMAIN ab
    BY <1>15, <2>1
  <2>3. \A x \in 1 .. Len(b) : Len(a) + x \in DOMAIN ab
    BY <1>15, <2>1
  <2>4. /\ \A x \in 1 .. Len(a) : ab[x] = a[x]
        /\ \A x \in 1 .. Len(b) : ab[Len(a) + x] = b[x]
    BY <1>11 DEF Joined
  <2> QED
    BY <2>2, <2>3, <2>4 DEF Range
\* The sources: the issuance comes later.
<1>17. ASSUME NEW y \in 1 .. Len(a) PROVE EntryFounded(v, Ahead(all, y), all[y], Behind(all, y) \cup X)
  <2>1. y \in 1 .. Len(ab)
    BY <1>15
  <2>2. all[y] = Entry("source", Sources[c][y], <<>>)
    BY <1>5, <1>14, <1>16, <2>1
  <2>3. Entry("iss", c, <<>>) \in Behind(all, y)
    BY <1>7, <1>14, <2>1
  <2>4. Sources[c][y] \in Range(Sources[c])
    <3>1. DOMAIN Sources[c] = 1 .. Len(Sources[c])
      BY <1>3, LenProperties
    <3> QED
      BY <1>5, <3>1 DEF Range
  <2>5. PICK e : e = all[y]
    OBVIOUS
  <2>6. e.type = "source" /\ e.id = Sources[c][y]
    BY <2>2, <2>5 DEF Entry
  <2>7. SourceNeeded(e, Behind(all, y) \cup X)
    BY <2>3, <2>4, <2>6 DEF SourceNeeded
  <2> QED
    BY <2>5, <2>6, <2>7 DEF EntryFounded
\* The key events, in the order of the log.
<1>18. ASSUME NEW y \in 1 .. Len(b)
       PROVE EntryFounded(v, Ahead(all, Len(a) + y), all[Len(a) + y], Behind(all, Len(a) + y) \cup X)
  <2>1. Len(a) + y \in 1 .. Len(ab)
    BY <1>15
  <2>2. all[Len(a) + y] = Entry("key", owner, l[y])
    BY <1>6, <1>14, <1>16, <2>1
  <2>3. Ahead(all, Len(a) + y) = Ahead(b, y) \cup Range(a)
    BY <1>14, <1>15, <2>1
  <2>4. PICK e : e = all[Len(a) + y]
    OBVIOUS
  <2>5. e.type = "key" /\ e.id = owner /\ e.event = l[y]
    BY <2>2, <2>4 DEF Entry
  <2>6. KeyFounded(v, Ahead(all, Len(a) + y), e)
    <3> SUFFICES ASSUME l[y] # <<>> PROVE Entry("key", owner, Front(l[y])) \in Ahead(b, y)
      BY <2>3, <2>5 DEF KeyFounded
    <3>1. y \in 1 .. Len(l)
      BY <1>6
    <3>2. PICK x \in 1 .. y - 1 : l[x] = Front(l[y])
      BY <1>8, <3>1 DEF LogInv, LogsInOrder, InOrder
    <3>3. x \in 1 .. Len(b)
      BY <1>15
    <3>4. b[x] = Entry("key", owner, Front(l[y]))
      BY <1>6, <3>2, <3>3
    <3> QED
      BY <3>4 DEF Ahead
  <2> QED
    BY <2>4, <2>5, <2>6 DEF EntryFounded
\* What is in the log is ahead of the registry and the issuance.
<1>19. \A event : Has(Issuer(c), event) => Entry("key", Issuer(c), event) \in Range(ab)
  <2> SUFFICES ASSUME NEW event, Has(Issuer(c), event) PROVE Entry("key", owner, event) \in Range(ab)
    BY <1>8
  <2>1. event \in Range(l) /\ DOMAIN l = 1 .. Len(l)
    BY <1>8, LenProperties DEF Has
  <2>2. PICK x \in 1 .. Len(l) : l[x] = event
    BY <2>1 DEF Range
  <2> QED
    BY <1>6, <1>16, <2>2
\* The registry.
<1>20. EntryFounded(v, Ahead(all, Len(ab) + 1), all[Len(ab) + 1], Behind(all, Len(ab) + 1) \cup X)
  <2>1. all[Len(ab) + 1] = Entry("vcp", c, <<>>)
    BY <1>7, <1>14
  <2>2. Range(ab) \subseteq Ahead(all, Len(ab) + 1)
    BY <1>7, <1>14
  <2>3. PICK e : e = all[Len(ab) + 1]
    OBVIOUS
  <2>4. e.type = "vcp" /\ e.id = c
    BY <2>1, <2>3 DEF Entry
  <2>5. RegistryOf[c] \in DOMAIN registries /\ v.registries = registries
    BY <1>1 DEF Registered, View
  <2>6. Has(Issuer(c), registries[RegistryOf[c]])
    BY <2>5 DEF RowsAreSealed, Issuer
  <2>7. RegistryFounded(v, Ahead(all, Len(ab) + 1), e)
    BY <1>19, <2>2, <2>4, <2>5, <2>6 DEF RegistryFounded
  <2> QED
    BY <2>3, <2>4, <2>5, <2>7 DEF EntryFounded
\* The issuance.
<1>21. EntryFounded(v, Ahead(all, Len(ab) + 2), all[Len(ab) + 2], Behind(all, Len(ab) + 2) \cup X)
  <2>1. all[Len(ab) + 2] = Entry("iss", c, <<>>)
    BY <1>7, <1>14
  <2>2. Ahead(all, Len(ab) + 2) = Ahead(d, 2) \cup Range(ab)
    BY <1>7, <1>14
  <2>3. PICK e : e = all[Len(ab) + 2]
    OBVIOUS
  <2>4. e.type = "iss" /\ e.id = c /\ e.event = <<>>
    BY <2>1, <2>3 DEF Entry
  <2>5. PICK ahead : ahead = Ahead(all, Len(ab) + 2)
    OBVIOUS
  <2>6. Some(ahead, "vcp", c)
    <3>1. Entry("vcp", c, <<>>) \in Ahead(d, 2)
      BY <1>7 DEF Ahead
    <3> QED
      BY <2>2, <2>5, <3>1 DEF Some, Entry
  <2>7. \A s \in Range(Sources[c]) : Some(ahead, "source", s)
    <3> SUFFICES ASSUME NEW s \in Range(Sources[c]) PROVE Some(ahead, "source", s)
      OBVIOUS
    <3>1. DOMAIN Sources[c] = 1 .. Len(Sources[c])
      BY <1>3, LenProperties
    <3>2. PICK x \in 1 .. Len(Sources[c]) : Sources[c][x] = s
      BY <3>1 DEF Range
    <3>3. Entry("source", s, <<>>) \in Range(ab)
      BY <1>5, <1>16, <3>2
    <3> QED
      BY <2>2, <2>5, <3>3 DEF Some, Entry
  <2>8. \A w \in v.wanted : w[1] = c => Entry("key", Issuer(c), w[2]) \in ahead
    <3>1. v.wanted = Wanted /\ \A w \in Wanted : Has(Issuer(w[1]), w[2])
      BY <1>1 DEF View, LogInv
    <3> QED
      BY <1>19, <2>2, <2>5, <3>1
  <2>9. IssuanceFounded(v, ahead, e)
    BY <2>4, <2>6, <2>7, <2>8 DEF IssuanceFounded
  <2> QED
    BY <2>3, <2>4, <2>5, <2>9 DEF EntryFounded
<1>22. \A y \in 1 .. Len(all) :
           \/ y \in 1 .. Len(a)
           \/ \E x \in 1 .. Len(b) : y = Len(a) + x
           \/ y = Len(ab) + 1 \/ y = Len(ab) + 2
  <2> SUFFICES ASSUME NEW y \in 1 .. Len(all), ~(y \in 1 .. Len(a)), y # Len(ab) + 1, y # Len(ab) + 2
               PROVE \E x \in 1 .. Len(b) : y = Len(a) + x
    OBVIOUS
  <2>1. y - Len(a) \in 1 .. Len(b) /\ y = Len(a) + (y - Len(a))
    BY <1>14, <1>15
  <2> QED
    BY <2>1
<1>23. \A y \in 1 .. Len(all) : EntryFounded(v, Ahead(all, y), all[y], Behind(all, y) \cup X)
  BY <1>17, <1>18, <1>20, <1>21, <1>22
<1> QED
  BY <1>1, <1>12, <1>23

\* What a grant names is wanted already.
LEMMA WantedStep ==
    ASSUME Typed, NEW p \in Callers, NEW q \in Calls, call' = [call EXCEPT ![p] = q], UNCHANGED iss,
           q.pc = "send" => \A e \in Range(q.todo) : e.type = "grant" => <<e.id, e.event>> \in Wanted
    PROVE Wanted' \subseteq Wanted
<1>1. call'[p] = q /\ \A x \in Callers \ {p} : call'[x] = call[x]
  BY DEF Typed
<1> SUFFICES ASSUME NEW c \in Credentials, NEW event \in Events, <<c, event>> \in Wanted'
             PROVE <<c, event>> \in Wanted
  BY DEF Wanted
<1>2. CASE c \in DOMAIN iss /\ event = iss[c]
  BY <1>2 DEF Wanted
<1>3. ASSUME NEW x \in Callers, call'[x].pc = "send", Entry("grant", c, event) \in Range(call'[x].todo)
      PROVE <<c, event>> \in Wanted
  <2>1. CASE x = p
    <3>1. PICK e : e = Entry("grant", c, event)
      OBVIOUS
    <3>2. e.type = "grant" /\ e.id = c /\ e.event = event
      BY <3>1 DEF Entry
    <3>3. e \in Range(q.todo) /\ q.pc = "send"
      BY <1>1, <1>3, <2>1, <3>1
    <3> QED
      BY <3>2, <3>3
  <2>2. CASE x # p
    BY <1>1, <1>3, <2>2 DEF Wanted
  <2> QED
    BY <2>1, <2>2
<1> QED
  BY <1>2, <1>3 DEF Wanted

\* A call turns into another one, and no event is lost from the logs.
LEMMA LogStep ==
    ASSUME Typed, LogInv, NEW p \in Callers, NEW q \in Calls, call' = [call EXCEPT ![p] = q],
           LogsInOrder', \A o \in Owners : \A event : Has(o, event) => Has(o, event)',
           UNCHANGED <<registries, credentials>>, Wanted' \subseteq Wanted,
           q.pc \in {"anchor", "witness", "store"} =>
               /\ q.owner \in Owners /\ Has(q.owner, Front(q.event))
               /\ \A r \in Registries : Last(q.event) = Seal("vcp", r) =>
                      /\ r \notin DOMAIN registries
                      /\ \A x \in Callers \ {p} : ~(IsSealing(x) /\ Last(call[x].event) = Seal("vcp", r))
    PROVE LogInv'
<1>1. call'[p] = q /\ \A x \in Callers \ {p} : call'[x] = call[x]
  BY DEF Typed
<1>2. BuiltOnLog'
  <2> SUFFICES ASSUME NEW x \in Callers, IsSealing(x)' PROVE Has(call[x].owner, Front(call[x].event))'
    BY DEF BuiltOnLog
  <2>1. CASE x = p
    <3>1. call'[x] = q /\ Has(q.owner, Front(q.event))'
      BY <1>1, <2>1 DEF IsSealing
    <3> QED
      BY <3>1 DEF Has
  <2>2. CASE x # p
    <3>1. call'[x] = call[x] /\ IsSealing(x)
      BY <1>1, <2>2 DEF IsSealing
    <3>2. call[x].owner \in Owners /\ Has(call[x].owner, Front(call[x].event))
      BY <3>1, Sealings DEF LogInv, BuiltOnLog
    <3>3. PICK o, event : o = call[x].owner /\ event = Front(call[x].event)
      OBVIOUS
    <3>4. Has(o, event)'
      BY <3>2, <3>3
    <3> QED
      BY <3>1, <3>3, <3>4 DEF Has
  <2> QED
    BY <2>1, <2>2
<1>3. MadeOnce'
  <2> SUFFICES ASSUME NEW x \in Callers, NEW r \in Registries, IsSealing(x)', Last(call'[x].event) = Seal("vcp", r)
               PROVE /\ r \notin DOMAIN registries
                     /\ \A y \in Callers : IsSealing(y)' /\ Last(call'[y].event) = Seal("vcp", r) => y = x
    BY DEF MadeOnce
  <2>1. CASE x = p
    BY <1>1, <2>1 DEF IsSealing
  <2>2. CASE x # p
    <3>1. IsSealing(x) /\ Last(call[x].event) = Seal("vcp", r)
      BY <1>1, <2>2 DEF IsSealing
    <3>2. /\ r \notin DOMAIN registries
          /\ \A y \in Callers : IsSealing(y) /\ Last(call[y].event) = Seal("vcp", r) => y = x
      BY <3>1 DEF LogInv, MadeOnce
    <3>3. ASSUME NEW y \in Callers, IsSealing(y)', Last(call'[y].event) = Seal("vcp", r) PROVE y = x
      <4>1. CASE y = p
        BY <1>1, <2>2, <3>1, <3>3, <4>1 DEF IsSealing
      <4>2. CASE y # p
        BY <1>1, <3>2, <3>3, <4>2 DEF IsSealing
      <4> QED
        BY <4>1, <4>2
    <3> QED
      BY <3>2, <3>3
  <2> QED
    BY <2>1, <2>2
<1>4. \A c \in credentials' : Registered(c)'
  BY DEF LogInv, Registered
<1>5. \A w \in Wanted' : Has(Issuer(w[1]), w[2])'
  <2> SUFFICES ASSUME NEW w \in Wanted' PROVE Has(Issuer(w[1]), w[2])'
    OBVIOUS
  <2>1. w[1] \in Credentials /\ Has(Issuer(w[1]), w[2])
    BY DEF LogInv, Wanted
  <2>2. Issuer(w[1]) \in Owners
    BY <2>1, Issuers
  <2> QED
    BY <2>1, <2>2
<1> QED
  BY <1>2, <1>3, <1>4, <1>5 DEF LogInv

\* A view with the same rows and no more wanted is a later one.
LEMMA LaterView ==
    ASSUME UNCHANGED <<registries, iss, disturbed>>, Range(box) \subseteq Range(box'), Wanted' \subseteq Wanted, NEW T
    PROVE Later(View, View', T)
BY DEF Later, View

\* A call turns into another one, and what is stored stays as it is.
LEMMA SendStep ==
    ASSUME Typed, SendInv, NEW p \in Callers, NEW q \in Calls, call' = [call EXCEPT ![p] = q],
           UNCHANGED <<registries, iss, disturbed>>, Range(box) \subseteq Range(box'), Wanted' \subseteq Wanted,
           box' \in Seq(Messages), BoxFounded(View', box'), IssuancesAnchored(View'),
           q.pc = "send" => TodoFounded(View', q.todo)
    PROVE SendInv'
<1>1. call'[p] = q /\ \A x \in Callers \ {p} : call'[x] = call[x]
  BY DEF Typed
<1>2. PICK w : w = View'
  OBVIOUS
<1>3. PICK v : v = View
  OBVIOUS
<1>4. ASSUME NEW x \in Callers, call'[x].pc = "send" PROVE TodoFounded(w, call'[x].todo)
  <2>1. CASE x = p
    BY <1>1, <1>2, <1>4, <2>1
  <2>2. CASE x # p
    <3>1. call'[x] = call[x]
      BY <1>1, <2>2
    <3>2. call[x].todo \in Seq(Entries)
      BY <1>4, <3>1, Sendings
    <3>3. PICK t : t = call[x].todo
      OBVIOUS
    <3>4. TodoFounded(v, t) /\ t \in Seq(Entries)
      BY <1>3, <1>4, <3>1, <3>2, <3>3 DEF SendInv
    <3>5. Later(v, w, Range(t))
      BY <1>2, <1>3, LaterView
    <3> QED
      BY <3>1, <3>3, <3>4, <3>5, TodoAged
  <2> QED
    BY <2>1, <2>2
<1> QED
  BY <1>2, <1>4 DEF SendInv

\* What has arrived is as founded as before when no row is stored.
LEMMA BoxKept ==
    ASSUME SendInv, UNCHANGED <<box, registries, iss, disturbed>>, Wanted' \subseteq Wanted
    PROVE box' \in Seq(Messages) /\ BoxFounded(View', box') /\ IssuancesAnchored(View')
<1>1. PICK v, w : v = View /\ w = View'
  OBVIOUS
<1>2. w.sent = v.sent /\ w.disturbed = v.disturbed /\ w.iss = v.iss /\ w.wanted \subseteq v.wanted
  BY <1>1 DEF View
<1>3. BoxFounded(v, box) /\ IssuancesAnchored(v) /\ box \in Seq(Messages)
  BY <1>1 DEF SendInv
<1>4. BoxFounded(w, box)
  BY <1>2, <1>3 DEF BoxFounded, MessageFounded
<1>5. IssuancesAnchored(w)
  BY <1>2, <1>3 DEF IssuancesAnchored
<1> QED
  BY <1>1, <1>3, <1>4, <1>5

\* A call that sends nothing, before and after, leaves the order alone.
LEMMA QuietStep ==
    ASSUME Typed, LogInv, SendInv, NEW p \in Callers, NEW q \in Calls, call' = [call EXCEPT ![p] = q],
           q.pc # "send", UNCHANGED <<registries, iss, disturbed, box>>
    PROVE SendInv' /\ Wanted' \subseteq Wanted
<1>1. Wanted' \subseteq Wanted
  BY WantedStep
<1>2. box' \in Seq(Messages) /\ BoxFounded(View', box') /\ IssuancesAnchored(View')
  BY <1>1, BoxKept
<1>3. Range(box) \subseteq Range(box')
  OBVIOUS
<1>4. SendInv'
  BY <1>1, <1>2, <1>3, SendStep
<1> QED
  BY <1>1, <1>4

\* The event before the last seal of an event.
LEMMA Fronts ==
    /\ \A event \in Events : event # <<>> => Front(event) \in Events /\ Len(Front(event)) < Len(event)
    /\ \A event \in Events, seal \in Seals : Front(Append(event, seal)) = event
<1>1. ASSUME NEW event \in Seq(Seals), event # <<>>
      PROVE Front(event) \in Seq(Seals) /\ Len(Front(event)) < Len(event)
  <2>1. Len(event) \in Nat \ {0}
    BY <1>1, EmptySeq, LenProperties
  <2>2. PICK n \in Nat : n + 1 = Len(event)
    <3>1. Len(event) - 1 \in Nat /\ (Len(event) - 1) + 1 = Len(event)
      BY <2>1
    <3> QED
      BY <3>1
  <2>3. 1 \in Int /\ n \in Int /\ \A x \in 1 .. n : event[x] \in Seals
    BY <2>1, <2>2, ElementOfSeq
  <2>4. SubSeq(event, 1, n) \in Seq(Seals) /\ Len(SubSeq(event, 1, n)) = IF 1 <= n THEN n - 1 + 1 ELSE 0
    BY <2>3, SubSeqProperties
  <2>5. Len(SubSeq(event, 1, n)) = n
    BY <2>2, <2>4
  <2>6. Front(event) = SubSeq(event, 1, n) /\ n < Len(event)
    <3>1. Len(event) - 1 = n /\ n < Len(event)
      BY <2>2
    <3> QED
      BY <3>1 DEF Front
  <2> QED
    BY <2>4, <2>5, <2>6
<1>2. ASSUME NEW event \in Seq(Seals), NEW seal \in Seals PROVE Front(Append(event, seal)) = event
  <2> DEFINE a == Append(event, seal)
             n == Len(event)
  <2>1. n \in Nat /\ a \in Seq(Seals) /\ Len(a) = n + 1 /\ \A x \in 1 .. n : a[x] = event[x]
    BY AppendProperties, LenProperties
  <2>n. n = Len(event)
    OBVIOUS
  <2> HIDE DEF n
  <2>a. a = Append(event, seal)
    OBVIOUS
  <2> HIDE DEF a
  <2>2. Len(a) - 1 = n /\ n \in 0 .. Len(a)
    BY <2>1
  <2>3. 1 \in Int /\ n \in Int /\ \A x \in 1 .. n : a[x] \in Seals
    BY <2>1, <2>n, ElementOfSeq
  <2>4. /\ SubSeq(a, 1, n) \in Seq(Seals)
        /\ Len(SubSeq(a, 1, n)) = IF 1 <= n THEN n - 1 + 1 ELSE 0
        /\ \A x \in 1 .. n - 1 + 1 : SubSeq(a, 1, n)[x] = a[1 + x - 1]
    BY <2>3, SubSeqProperties
  <2>5. n - 1 + 1 = n /\ \A x \in 1 .. n : 1 + x - 1 = x
    BY <2>1
  <2>6. /\ SubSeq(a, 1, n) \in Seq(Seals) /\ Len(SubSeq(a, 1, n)) = n
        /\ \A x \in 1 .. n : SubSeq(a, 1, n)[x] = a[x]
    <3>1. Len(SubSeq(a, 1, n)) = n
      BY <2>1, <2>4
    <3> QED
      BY <2>4, <2>5, <3>1
  <2>7. SubSeq(a, 1, n) = event
    BY <2>1, <2>n, <2>6, SeqEqual
  <2> QED
    BY <2>2, <2>7, <2>a DEF Front
<1> QED
  BY <1>1, <1>2 DEF Events

\* saveMessage keeps the order: what is built on an event of the log comes after it.
LEMMA SaveInOrder ==
    ASSUME NEW rows \in Seq(Events), InOrder(rows), NEW event \in Events, event # <<>>, Front(event) \in Range(rows)
    PROVE InOrder(Save(rows, event))
<1> DEFINE I == {x \in DOMAIN rows : Len(rows[x]) <= Len(event)}
           k == Cardinality(I)
<1>1. Len(rows) \in Nat /\ DOMAIN rows = 1 .. Len(rows)
  BY LenProperties
<1>2. PICK m : m = Len(rows)
  OBVIOUS
<1>3. PICK n : n = Len(event)
  OBVIOUS
<1>4. m \in Nat /\ n \in Nat /\ \A x \in 1 .. m : rows[x] \in Events /\ Len(rows[x]) \in Nat
  BY <1>1, <1>2, <1>3, ElementOfSeq, LenProperties DEF Events
<1>5. \A x \in 1 .. m, y \in 1 .. m : x < y => Len(rows[x]) <= Len(rows[y])
  BY <1>2 DEF InOrder
<1>6. \A y \in 1 .. m : rows[y] # <<>> => \E x \in 1 .. y - 1 : rows[x] = Front(rows[y])
  BY <1>2 DEF InOrder
<1>7. I = {x \in 1 .. m : Len(rows[x]) <= n}
  BY <1>1, <1>2, <1>3
<1>8. PICK j \in 0 .. m : I = 1 .. j
  <2>1. CASE I = 1 .. m
    BY <1>4, <2>1
  <2>2. CASE I # 1 .. m
    <3>1. PICK K : K = {x \in 1 .. m : ~(Len(rows[x]) <= n)}
      OBVIOUS
    <3>2. K # {} /\ K \subseteq Nat
      BY <1>7, <2>2, <3>1
    <3>3. PICK x \in K : \A y \in K : x <= y
      BY <3>2, NatMin
    <3>4. x \in 1 .. m /\ x \in Nat /\ Len(rows[x]) > n
      BY <1>4, <3>1, <3>3
    <3>5. \A y \in 1 .. m : y < x => Len(rows[y]) <= n
      BY <1>4, <3>1, <3>3, <3>4
    <3>6. \A y \in 1 .. m : x <= y => ~(Len(rows[y]) <= n)
      BY <1>4, <1>5, <3>4
    <3>7. I = 1 .. x - 1
      <4>1. \A y \in 1 .. m : y \in 1 .. x - 1 <=> y < x
        BY <1>4, <3>4
      <4>2. \A y \in 1 .. x - 1 : y \in 1 .. m
        BY <1>4, <3>4
      <4>3. \A y \in 1 .. m : ~(y < x) => x <= y
        BY <1>4, <3>4
      <4>4. \A y \in 1 .. m : Len(rows[y]) <= n <=> y \in 1 .. x - 1
        BY <3>5, <3>6, <4>1, <4>3
      <4> HIDE DEF I
      <4> QED
        BY <1>7, <4>2, <4>4
    <3>8. x - 1 \in 0 .. m
      BY <1>4, <3>4
    <3> QED
      BY <3>7, <3>8
  <2> QED
    BY <2>1, <2>2
<1>9. k = j
  <2>1. Cardinality(1 .. j) = IF 1 > j THEN 0 ELSE j - 1 + 1
    BY <1>4, <1>8, FS_Interval
  <2>2. Cardinality(1 .. j) = j
    BY <1>4, <1>8, <2>1
  <2> QED
    BY <1>8, <2>2
<1> DEFINE t == Inserted(rows, j, event)
<1>10. /\ Len(t) = m + 1
       /\ \A i \in 1 .. j : t[i] = rows[i]
       /\ t[j + 1] = event
       /\ \A i \in j + 1 .. m : t[i + 1] = rows[i]
  <2>1. j \in 0 .. Len(rows)
    BY <1>2, <1>8
  <2>2. Len(t) = Len(rows) + 1
    BY <2>1, Insertion
  <2>3. \A i \in 1 .. j : t[i] = rows[i]
    BY <2>1, Insertion
  <2>4. t[j + 1] = event
    BY <2>1, Insertion
  <2>5. \A i \in j + 1 .. Len(rows) : t[i + 1] = rows[i]
    BY <2>1, Insertion
  <2> QED
    BY <1>2, <2>2, <2>3, <2>4, <2>5
<1>11. Save(rows, event) = t
  <2>1. (1 + k) - 1 = j /\ 1 + k = j + 1
    BY <1>9
  <2> QED
    BY <2>1 DEF Save, Inserted, InsertAt, k, I
<1>12. \A x \in 1 .. m : x <= j <=> Len(rows[x]) <= n
  BY <1>7, <1>8
<1>13. PICK z \in 1 .. m : rows[z] = Front(event)
  BY <1>1, <1>2 DEF Range
<1>14. Len(Front(event)) < n
  BY <1>3, Fronts
<1>15. z <= j
  BY <1>4, <1>12, <1>13, <1>14
<1> HIDE DEF t, k, I
<1>16. \A y \in 1 .. Len(t) : y \in 1 .. j \/ y = j + 1 \/ \E i \in j + 1 .. m : y = i + 1
  <2> SUFFICES ASSUME NEW y \in 1 .. Len(t), ~(y \in 1 .. j), y # j + 1 PROVE \E i \in j + 1 .. m : y = i + 1
    OBVIOUS
  <2>1. y - 1 \in j + 1 .. m /\ y = (y - 1) + 1
    BY <1>4, <1>10
  <2> QED
    BY <2>1
<1>17. ASSUME NEW x \in 1 .. Len(t), NEW y \in 1 .. Len(t), x < y PROVE Len(t[x]) <= Len(t[y])
  <2>1. CASE x \in 1 .. j
    <3>1. t[x] = rows[x] /\ x \in 1 .. m /\ Len(rows[x]) <= n
      BY <1>4, <1>10, <1>12, <2>1
    <3>2. CASE y \in 1 .. j
      <4>1. t[y] = rows[y] /\ y \in 1 .. m
        BY <1>4, <1>10, <3>2
      <4> QED
        BY <1>5, <1>17, <3>1, <4>1
    <3>3. CASE y = j + 1
      BY <1>3, <1>10, <3>1, <3>3
    <3>4. ASSUME NEW i \in j + 1 .. m, y = i + 1 PROVE Len(t[x]) <= Len(t[y])
      <4>1. t[y] = rows[i] /\ i \in 1 .. m /\ x < i
        BY <1>4, <1>10, <2>1, <3>4
      <4> QED
        BY <1>5, <3>1, <4>1
    <3> QED
      BY <1>16, <3>2, <3>3, <3>4
  <2>2. CASE x = j + 1
    <3>1. PICK i \in j + 1 .. m : y = i + 1
      BY <1>4, <1>16, <1>17, <2>2
    <3>2. t[y] = rows[i] /\ i \in 1 .. m /\ ~(i <= j)
      BY <1>4, <1>10, <3>1
    <3>3. t[x] = event /\ ~(Len(rows[i]) <= n) /\ Len(rows[i]) \in Nat
      BY <1>4, <1>10, <1>12, <2>2, <3>2
    <3> QED
      BY <1>3, <1>4, <3>2, <3>3
  <2>3. ASSUME NEW i \in j + 1 .. m, x = i + 1 PROVE Len(t[x]) <= Len(t[y])
    <3>1. PICK l \in j + 1 .. m : y = l + 1
      BY <1>4, <1>16, <1>17, <2>3
    <3>2. t[x] = rows[i] /\ t[y] = rows[l] /\ i \in 1 .. m /\ l \in 1 .. m /\ i < l
      BY <1>4, <1>10, <1>17, <2>3, <3>1
    <3> QED
      BY <1>5, <3>2
  <2> QED
    BY <1>16, <2>1, <2>2, <2>3
<1>18. ASSUME NEW y \in 1 .. Len(t), t[y] # <<>> PROVE \E x \in 1 .. y - 1 : t[x] = Front(t[y])
  <2>1. CASE y \in 1 .. j
    <3>1. t[y] = rows[y] /\ y \in 1 .. m
      BY <1>4, <1>10, <2>1
    <3>2. PICK x \in 1 .. y - 1 : rows[x] = Front(rows[y])
      BY <1>6, <1>18, <3>1
    <3>3. x \in 1 .. j
      BY <2>1
    <3> QED
      BY <1>10, <3>1, <3>2, <3>3
  <2>2. CASE y = j + 1
    <3>1. z \in 1 .. j /\ z \in 1 .. y - 1
      BY <1>15, <2>2
    <3> QED
      BY <1>10, <1>13, <2>2, <3>1
  <2>3. ASSUME NEW i \in j + 1 .. m, y = i + 1 PROVE \E x \in 1 .. y - 1 : t[x] = Front(t[y])
    <3>1. t[y] = rows[i] /\ i \in 1 .. m
      BY <1>4, <1>10, <2>3
    <3>2. PICK x \in 1 .. i - 1 : rows[x] = Front(rows[i])
      BY <1>6, <1>18, <3>1
    <3>3. CASE x <= j
      <4>1. x \in 1 .. j /\ x \in 1 .. y - 1
        BY <1>4, <2>3, <3>3
      <4> QED
        BY <1>10, <3>1, <3>2, <4>1
    <3>4. CASE ~(x <= j)
      <4>1. x \in j + 1 .. m /\ x + 1 \in 1 .. y - 1
        BY <1>4, <2>3, <3>4
      <4> QED
        BY <1>10, <3>1, <3>2, <4>1
    <3> QED
      BY <3>3, <3>4
  <2> QED
    BY <1>16, <2>1, <2>2, <2>3
<1> QED
  BY <1>11, <1>17, <1>18 DEF InOrder

\* A call that sends nothing goes on, and nothing is stored.
LEMMA QuietCall ==
    ASSUME OInv, NEW p \in Callers, NEW q \in Calls, call' = [call EXCEPT ![p] = q], q.pc # "send",
           UNCHANGED <<log, registries, credentials, iss, box, disturbed>>,
           q.pc \in {"anchor", "witness", "store"} =>
               /\ q.owner \in Owners /\ Has(q.owner, Front(q.event))
               /\ \A r \in Registries : Last(q.event) = Seal("vcp", r) =>
                      /\ r \notin DOMAIN registries
                      /\ \A x \in Callers \ {p} : ~(IsSealing(x) /\ Last(call[x].event) = Seal("vcp", r))
    PROVE LogInv' /\ SendInv'
<1>1. Typed /\ LogInv /\ SendInv
  BY DEF OInv, IInv
<1>2. SendInv' /\ Wanted' \subseteq Wanted
  BY <1>1, QuietStep
<1>3. LogsInOrder'
  BY <1>1 DEF LogInv, LogsInOrder
<1>4. \A o \in Owners : \A event : Has(o, event) => Has(o, event)'
  BY DEF Has
<1>5. LogInv'
  BY <1>1, <1>2, <1>3, <1>4, LogStep
<1> QED
  BY <1>2, <1>5

\* A call begins to seal: its event is built on the last one of the log.
LEMMA BeganOrder ==
    ASSUME OInv, NEW p \in Callers, NEW o \in Owners, NEW seal \in Seals, Begin(p, o, seal),
           \A r \in Registries : seal = Seal("vcp", r) =>
               /\ r \notin DOMAIN registries
               /\ \A x \in Callers \ {p} : ~(IsSealing(x) /\ Last(call[x].event) = Seal("vcp", r))
    PROVE LogInv' /\ SendInv'
<1>1. Typed
  BY DEF OInv, IInv
<1>2. PICK event : event = Interact(o, seal)
  OBVIOUS
<1>3. event \in Events /\ Last(event) = seal
  BY <1>1, <1>2, Interacted
<1>4. Has(o, Front(event))
  <2>1. log[o] \in Seq(Events) /\ log[o] # <<>>
    BY <1>1 DEF Typed
  <2>2. Len(log[o]) \in 1 .. Len(log[o]) /\ DOMAIN log[o] = 1 .. Len(log[o])
    BY <2>1, EmptySeq, LenProperties
  <2>3. Last(log[o]) \in Events /\ Last(log[o]) \in Range(log[o])
    BY <2>1, <2>2, ElementOfSeq DEF Last, Range
  <2>4. Front(event) = Last(log[o])
    BY <1>2, <2>3, Fronts DEF Interact
  <2> QED
    BY <2>3, <2>4 DEF Has
<1>5. PICK q : q = [pc |-> "anchor", owner |-> o, event |-> event]
  OBVIOUS
<1>6. q \in Calls /\ q.pc = "anchor" /\ q.owner = o /\ q.event = event
  BY <1>3, <1>5 DEF Calls, SealingCalls
<1>7. call' = [call EXCEPT ![p] = q] /\ UNCHANGED <<log, registries, credentials, iss, box, disturbed>>
  BY <1>2, <1>5 DEF Begin
<1> QED
  BY <1>3, <1>4, <1>6, <1>7, QuietCall

\* createRegistry begins, with a registry nothing else is about.
LEMMA CreateRegistryOrder ==
    ASSUME OInv, NEW p \in Callers, NEW r \in Registries, CreateRegistry(p, r)
    PROVE LogInv' /\ SendInv'
<1>1. OwnerOf[r] \in Owners /\ Seal("vcp", r) \in Seals
  BY IssuanceAssumption, RegistrySeal
<1>2. Begin(p, OwnerOf[r], Seal("vcp", r)) /\ Fresh(r)
  BY DEF CreateRegistry
<1>3. \A x \in Registries : Seal("vcp", r) = Seal("vcp", x) => x = r
  BY DEF Seal
<1>4. r \notin DOMAIN registries /\ \A x \in Callers : ~(IsSealing(x) /\ Last(call[x].event) = Seal("vcp", r))
  BY <1>2 DEF Fresh, IsSealing
<1> QED
  BY <1>1, <1>2, <1>3, <1>4, BeganOrder

\* issueCredential begins.
LEMMA IssueCredentialOrder ==
    ASSUME OInv, NEW p \in Callers, NEW c \in Credentials, IssueCredential(p, c)
    PROVE LogInv' /\ SendInv'
<1>1. Typed
  BY DEF OInv, IInv
<1>2. c \in credentials /\ Begin(p, Issuer(c), Seal("iss", c)) /\ Issuer(c) \in Owners
  BY Issuers DEF IssueCredential
<1>3. Seal("iss", c) \in Seals
  BY <1>1, <1>2, CredentialSeal
<1>4. \A r \in Registries : Seal("iss", c) # Seal("vcp", r)
  BY DEF Seal
<1> QED
  BY <1>2, <1>3, <1>4, BeganOrder

\* The event of a call is as it was in the next phase of the call.
LEMMA SameSubject ==
    ASSUME OInv, NEW p \in Callers, IsSealing(p), NEW q, q.owner = call[p].owner, q.event = call[p].event
    PROVE /\ q.owner \in Owners /\ Has(q.owner, Front(q.event))
          /\ \A r \in Registries : Last(q.event) = Seal("vcp", r) =>
                 /\ r \notin DOMAIN registries
                 /\ \A x \in Callers \ {p} : ~(IsSealing(x) /\ Last(call[x].event) = Seal("vcp", r))
<1>1. call[p].owner \in Owners
  BY Sealings DEF OInv, IInv
<1>2. Has(call[p].owner, Front(call[p].event))
  BY DEF OInv, LogInv, BuiltOnLog
<1>3. ASSUME NEW r \in Registries, Last(call[p].event) = Seal("vcp", r)
      PROVE /\ r \notin DOMAIN registries
            /\ \A x \in Callers \ {p} : ~(IsSealing(x) /\ Last(call[x].event) = Seal("vcp", r))
  BY <1>3 DEF OInv, LogInv, MadeOnce
<1> QED
  BY <1>1, <1>2, <1>3

\* The vcp or iss goes to the witness.
LEMMA SendToWitnessOrder ==
    ASSUME OInv, NEW p \in Callers, SendToWitness(p)
    PROVE LogInv' /\ SendInv'
<1> DEFINE q == [call[p] EXCEPT !.pc = "store"]
<1>1. Typed
  BY DEF OInv, IInv
<1>2. call[p].pc = "witness" /\ IsSealing(p)
  BY DEF SendToWitness, IsSealing
<1>3. call[p] \in SealingCalls
  BY <1>1, <1>2, Sealings
<1>4. q \in SealingCalls /\ q.pc = "store" /\ q.owner = call[p].owner /\ q.event = call[p].event
  BY <1>3 DEF SealingCalls
<1>5. q \in Calls
  BY <1>4 DEF Calls
<1>6. call' = [call EXCEPT ![p] = q]
  BY <1>1 DEF SendToWitness, Typed
<1> HIDE DEF q
<1>7. UNCHANGED <<log, registries, credentials, iss, box, disturbed>>
  BY DEF SendToWitness
<1>8. /\ q.owner \in Owners /\ Has(q.owner, Front(q.event))
      /\ \A r \in Registries : Last(q.event) = Seal("vcp", r) =>
             /\ r \notin DOMAIN registries
             /\ \A x \in Callers \ {p} : ~(IsSealing(x) /\ Last(call[x].event) = Seal("vcp", r))
  BY <1>2, <1>4, SameSubject
<1> QED
  BY <1>4, <1>5, <1>6, <1>7, <1>8, QuietCall

\* A call that throws sends nothing more.
LEMMA ThrownOrder ==
    ASSUME OInv, NEW p \in Callers, Throw(p), UNCHANGED box
    PROVE LogInv' /\ SendInv'
<1>1. Idle \in Calls /\ Idle.pc = "idle"
  BY DEF Calls, Idle
<1>2. call' = [call EXCEPT ![p] = Idle] /\ UNCHANGED <<log, registries, credentials, iss, disturbed>>
  BY DEF Throw
<1> QED
  BY <1>1, <1>2, QuietCall

\* A credential is stored, of a registry that is.
LEMMA CreateCredentialOrder ==
    ASSUME OInv, NEW c \in Credentials, CreateCredential(c)
    PROVE LogInv' /\ SendInv'
<1>1. /\ credentials' = credentials \cup {c} /\ UNCHANGED <<log, registries, iss, box, call, disturbed>>
      /\ Registered(c)
  BY DEF CreateCredential, Registered
<1>2. Wanted' = Wanted
  BY <1>1 DEF Wanted
<1>3. View' = View
  BY <1>1, <1>2 DEF View
<1>4. SendInv'
  BY <1>1, <1>3 DEF OInv, SendInv
<1>5. LogsInOrder' /\ BuiltOnLog' /\ MadeOnce'
  BY <1>1 DEF OInv, LogInv, LogsInOrder, BuiltOnLog, MadeOnce, IsSealing, Has
<1>6. \A x \in credentials' : Registered(x)'
  BY <1>1 DEF OInv, LogInv, Registered
<1>7. \A w \in Wanted' : Has(Issuer(w[1]), w[2])'
  BY <1>1, <1>2 DEF OInv, LogInv, Has
<1> QED
  BY <1>4, <1>5, <1>6, <1>7 DEF LogInv

\* commit stores the event after the one it was built on.
LEMMA CommitOrder ==
    ASSUME OInv, NEW p \in Callers, Commit(p)
    PROVE LogInv' /\ SendInv'
<1>1. Typed /\ SealsFounded /\ LogInv /\ SendInv
  BY DEF OInv, IInv
<1>2. IsSealing(p) /\ call[p].pc = "anchor"
  BY DEF Commit, IsSealing
<1>3. call[p].owner \in Owners /\ call[p].event \in Events /\ call[p] \in SealingCalls /\ call[p].event # <<>>
  BY <1>1, <1>2, Sealings DEF SealsFounded
<1>4. PICK o \in Owners, event \in Events : o = call[p].owner /\ event = call[p].event
  BY <1>3
<1> DEFINE pc == IF o \in Witnessed THEN "witness" ELSE "store"
           q == [call[p] EXCEPT !.pc = pc]
<1>5. /\ log' = IF Has(o, event) THEN log ELSE [log EXCEPT ![o] = Save(@, event)]
      /\ call' = [call EXCEPT ![p].pc = pc]
      /\ UNCHANGED <<registries, credentials, iss, box, disturbed>>
  BY <1>4 DEF Commit
<1>6. pc \in {"witness", "store"}
  OBVIOUS
<1> HIDE DEF pc
<1>7. q \in SealingCalls /\ q.pc = pc /\ q.owner = call[p].owner /\ q.event = call[p].event
  BY <1>3, <1>6 DEF SealingCalls
<1>8. call' = [call EXCEPT ![p] = q]
  BY <1>1, <1>5 DEF Typed
<1>9. q \in Calls
  BY <1>7 DEF Calls
<1> HIDE DEF q
<1>10. log[o] \in Seq(Events) /\ Has(o, Front(event)) /\ event # <<>>
  BY <1>1, <1>2, <1>3, <1>4 DEF Typed, LogInv, BuiltOnLog
<1>11. ASSUME NEW x \in Owners
       PROVE InOrder(log'[x]) /\ Range(log[x]) \subseteq Range(log'[x])
  <2>1. InOrder(log[x])
    BY <1>1 DEF LogInv, LogsInOrder
  <2>2. CASE Has(o, event) \/ x # o
    <3>1. log'[x] = log[x]
      BY <1>1, <1>5, <2>2 DEF Typed
    <3> QED
      BY <2>1, <3>1
  <2>3. CASE ~Has(o, event) /\ x = o
    <3>1. log'[x] = Save(log[o], event)
      BY <1>1, <1>5, <2>3 DEF Typed
    <3>2. InOrder(Save(log[o], event))
      BY <1>10, <2>1, <2>3, SaveInOrder DEF Has
    <3>3. Range(Save(log[o], event)) = Range(log[o]) \cup {event}
      BY <1>10, SaveAdds
    <3> QED
      BY <2>3, <3>1, <3>2, <3>3
  <2> QED
    BY <2>2, <2>3
<1>12. LogsInOrder'
  BY <1>11 DEF LogsInOrder
<1>13. \A x \in Owners : \A e : Has(x, e) => Has(x, e)'
  BY <1>11 DEF Has
<1>14. SendInv' /\ Wanted' \subseteq Wanted
  <2>1. q.pc # "send"
    BY <1>6, <1>7
  <2> QED
    BY <1>1, <1>5, <1>8, <1>9, <2>1, QuietStep
<1>15. /\ q.owner \in Owners /\ Has(q.owner, Front(q.event))
       /\ \A r \in Registries : Last(q.event) = Seal("vcp", r) =>
              /\ r \notin DOMAIN registries
              /\ \A x \in Callers \ {p} : ~(IsSealing(x) /\ Last(call[x].event) = Seal("vcp", r))
  BY <1>2, <1>7, SameSubject
<1>16. LogInv'
  BY <1>1, <1>5, <1>8, <1>9, <1>12, <1>13, <1>14, <1>15, LogStep
<1> QED
  BY <1>14, <1>16

\* A call that sends goes on, and nothing arrives yet.
LEMMA SentOrder ==
    ASSUME OInv, NEW p \in Callers, NEW todo \in Seq(Entries), Send(p, todo), UNCHANGED box,
           \A e \in Range(todo) : e.type = "grant" => <<e.id, e.event>> \in Wanted,
           Wanted' \subseteq Wanted => TodoFounded(View', todo)
    PROVE LogInv' /\ SendInv'
<1> DEFINE q == IF todo = <<>> THEN Idle ELSE [pc |-> "send", todo |-> todo]
<1>1. Typed /\ LogInv /\ SendInv
  BY DEF OInv, IInv
<1>2. q \in Calls /\ q.pc \in {"idle", "send"} /\ (q.pc = "send" => q.todo = todo)
  <2>1. todo # <<>> => [pc |-> "send", todo |-> todo] \in SendingCalls
    BY DEF SendingCalls
  <2> QED
    BY <2>1 DEF Calls, Idle
<1>3. call' = [call EXCEPT ![p] = q] /\ UNCHANGED <<log, registries, credentials, iss, disturbed>>
  BY DEF Send
<1> HIDE DEF q
<1>4. Wanted' \subseteq Wanted
  BY <1>1, <1>2, <1>3, WantedStep
<1>5. box' \in Seq(Messages) /\ BoxFounded(View', box') /\ IssuancesAnchored(View')
  BY <1>1, <1>3, <1>4, BoxKept
<1>6. Range(box) \subseteq Range(box')
  OBVIOUS
<1>7. SendInv'
  BY <1>1, <1>2, <1>3, <1>4, <1>5, <1>6, SendStep
<1>8. LogsInOrder' /\ \A o \in Owners : \A event : Has(o, event) => Has(o, event)'
  BY <1>1, <1>3 DEF LogInv, LogsInOrder, Has
<1>9. LogInv'
  BY <1>1, <1>2, <1>3, <1>4, <1>8, LogStep
<1> QED
  BY <1>7, <1>9

\* A call with one entry that rests on nothing ahead of it.
LEMMA OneFounded ==
    ASSUME NEW v, NEW e \in Entries, EntryFounded(v, {}, e, {})
    PROVE TodoFounded(v, <<e>>)
<1>1. PICK t : t = <<e>>
  OBVIOUS
<1>2. Len(t) = 1 /\ t[1] = e
  BY <1>1
<1>3. Ahead(t, 1) = {} /\ Behind(t, 1) = {}
  BY <1>2 DEF Ahead, Behind
<1> QED
  BY <1>1, <1>2, <1>3 DEF TodoFounded

\* sendCredentialArtifacts begins: the registry is stored, as the credential is.
LEMMA SendCredentialArtifactsOrder ==
    ASSUME OInv, NEW p \in Callers, NEW c \in Requested, SendCredentialArtifacts(p, c)
    PROVE LogInv' /\ SendInv'
<1>1. PICK e : e = Entry("artifacts", c, <<>>)
  OBVIOUS
<1>2. e \in Entries /\ e.type = "artifacts" /\ e.id = c
  <2>1. e \in Entries
    BY <1>1, IssuanceAssumption, CredentialEntry, Inception
  <2> QED
    BY <1>1, <2>1 DEF Entry
<1>3. <<e>> \in Seq(Entries) /\ Range(<<e>>) = {e}
  BY <1>2 DEF Range
<1>4. Send(p, <<e>>) /\ UNCHANGED <<box, registries>>
  BY <1>1 DEF SendCredentialArtifacts, Send
<1>5. RegistryOf[c] \in DOMAIN registries
  BY DEF SendCredentialArtifacts, OInv, LogInv, Registered
<1>6. PICK w : w = View'
  OBVIOUS
<1>7. RegistryOf[c] \in DOMAIN w.registries
  BY <1>4, <1>5, <1>6 DEF View
<1>8. EntryFounded(w, {}, e, {})
  BY <1>2, <1>7 DEF EntryFounded
<1>9. TodoFounded(View', <<e>>)
  BY <1>2, <1>6, <1>8, OneFounded
<1> QED
  BY <1>2, <1>3, <1>4, <1>9, SentOrder

\* grant begins, with an event the issuance names.
LEMMA GrantOrder ==
    ASSUME OInv, NEW p \in Callers, NEW c \in Requested, Grant(p, c)
    PROVE LogInv' /\ SendInv'
<1>1. Typed /\ RowsAreSealed
  BY DEF OInv, IInv
<1>2. c \in DOMAIN iss /\ c \in Credentials
  BY IssuanceAssumption DEF Grant, GetCredentialEvents
<1>3. iss[c] \in Events
  <2>1. Issuer(c) \in Owners
    BY <1>2, Issuers
  <2>2. log[Issuer(c)] \in Seq(Events) /\ iss[c] \in Range(log[Issuer(c)])
    BY <1>1, <1>2, <2>1 DEF Typed, RowsAreSealed, Has
  <2> QED
    BY <2>2, LenProperties, ElementOfSeq DEF Range
<1>4. PICK e : e = Entry("grant", c, iss[c])
  OBVIOUS
<1>5. e \in Entries /\ e.type = "grant" /\ e.id = c /\ e.event = iss[c]
  <2>1. e \in Entries
    BY <1>2, <1>3, <1>4, CredentialEntry
  <2> QED
    BY <1>4, <2>1 DEF Entry
<1>6. GetCredentialEvents(c)[1].event = iss[c]
  BY <1>2 DEF GetCredentialEvents, Entry
<1>7. Send(p, <<e>>) /\ UNCHANGED box
  BY <1>4, <1>6 DEF Grant
<1>8. <<e>> \in Seq(Entries) /\ Range(<<e>>) = {e}
  BY <1>5 DEF Range
<1>9. <<e.id, e.event>> \in Wanted
  BY <1>2, <1>3, <1>5 DEF Wanted
<1>10. PICK w : w = View'
  OBVIOUS
<1>11. EntryFounded(w, {}, e, {})
  BY <1>5 DEF EntryFounded
<1>12. TodoFounded(View', <<e>>)
  BY <1>5, <1>10, <1>11, OneFounded
<1> QED
  BY <1>7, <1>8, <1>9, <1>12, SentOrder

\* The entry that is due rests on the box alone.
LEMMA HeadFounded ==
    ASSUME NEW v, NEW t \in Seq(Entries), t # <<>>, TodoFounded(v, t)
    PROVE Head(t) \in Entries /\ Head(t) \in Range(t) /\ \E behind : EntryFounded(v, {}, Head(t), behind)
<1>1. Len(t) \in Nat \ {0} /\ DOMAIN t = 1 .. Len(t)
  BY EmptySeq, LenProperties
<1>2. Head(t) \in Entries /\ Head(t) = t[1]
  BY HeadTailProperties
<1>3. Ahead(t, 1) = {}
  BY DEF Ahead
<1>4. EntryFounded(v, Ahead(t, 1), t[1], Behind(t, 1))
  BY <1>1 DEF TodoFounded
<1> QED
  BY <1>1, <1>2, <1>3, <1>4 DEF Range

\* What comes after it is in the call's list too.
LEMMA TailWithin ==
    ASSUME NEW t \in Seq(Entries), t # <<>>
    PROVE Tail(t) \in Seq(Entries) /\ Range(Tail(t)) \subseteq Range(t)
<1>1. Tail(t) \in Seq(Entries) /\ t = <<Head(t)>> \o Tail(t) /\ Head(t) \in Entries
  BY HeadTailProperties
<1>2. PICK a, r : a = <<Head(t)>> /\ r = Tail(t)
  OBVIOUS
<1>3. a \in Seq(Entries) /\ Len(a) = 1 /\ r \in Seq(Entries) /\ t = a \o r
  BY <1>1, <1>2
<1>4. Joined(a, r, t)
  BY <1>3, JoinedEntries
<1>5. DOMAIN t = 1 .. Len(t) /\ DOMAIN r = 1 .. Len(r) /\ Len(r) \in Nat
  BY <1>3, LenProperties
<1>6. \A y \in 1 .. Len(r) : 1 + y \in DOMAIN t /\ t[1 + y] = r[y]
  BY <1>3, <1>4, <1>5 DEF Joined
<1> QED
  BY <1>1, <1>2, <1>5, <1>6 DEF Range

\* Entries that are not grants take the place of the one that is due, and nothing
\* arrives.
LEMMA ExpandedOrder ==
    ASSUME OInv, NEW p \in Callers, call[p].pc = "send", NEW new \in Seq(Entries),
           Send(p, new \o Rest(p)), UNCHANGED box,
           \A e \in Range(new) : e.type # "grant",
           Now(p).type \in {"artifacts", "source"},
           Now(p).type = "artifacts" => Some(Range(new), "iss", Now(p).id),
           Now(p).type = "source" => Some(Range(new), "acdc", Now(p).id),
           \A y \in 1 .. Len(new) : EntryFounded(View, Ahead(new, y), new[y], Behind(new, y) \cup Range(Rest(p)))
    PROVE LogInv' /\ SendInv'
<1>1. Typed /\ SendInv
  BY DEF OInv, IInv
<1>2. PICK t : t = call[p].todo
  OBVIOUS
<1>3. t \in Seq(Entries) /\ t # <<>> /\ Now(p) = Head(t) /\ Rest(p) = Tail(t)
  BY <1>1, <1>2, Sendings DEF Now, Rest
<1>4. PICK v, w : v = View /\ w = View'
  OBVIOUS
<1>5. TodoFounded(v, t)
  BY <1>1, <1>2, <1>4 DEF SendInv
<1>6. Tail(t) \in Seq(Entries) /\ Range(Tail(t)) \subseteq Range(t)
  BY <1>3, TailWithin
<1>7. PICK todo : todo = new \o Tail(t)
  OBVIOUS
<1>8. todo \in Seq(Entries)
  BY <1>6, <1>7, JoinedEntries
<1>9. \A e \in Range(todo) : e.type = "grant" => <<e.id, e.event>> \in Wanted
  <2> SUFFICES ASSUME NEW e \in Range(todo), e.type = "grant" PROVE <<e.id, e.event>> \in Wanted
    OBVIOUS
  <2>1. Range(todo) \subseteq Range(new) \cup Range(Tail(t))
    BY <1>6, <1>7, RangeJoined
  <2>2. e \in Range(t)
    BY <1>6, <2>1
  <2>3. e \in Entries
    BY <1>3, <2>2, LenProperties, ElementOfSeq DEF Range
  <2>4. e = Entry("grant", e.id, e.event) /\ e.id \in Credentials /\ e.event \in Events
    BY <2>3 DEF Entries, Entry
  <2> QED
    BY <1>2, <2>2, <2>4 DEF Wanted
<1>10. ASSUME Wanted' \subseteq Wanted PROVE TodoFounded(w, todo)
  <2>1. /\ w.sent = v.sent /\ w.registries = v.registries /\ w.iss = v.iss /\ w.disturbed = v.disturbed
        /\ w.wanted \subseteq v.wanted
    BY <1>4, <1>10 DEF View, Send
  <2>2. Covers(v, w, Head(t), Range(new))
    BY <1>3, <2>1 DEF Covers
  <2>3. ASSUME NEW y \in 1 .. Len(new)
        PROVE EntryFounded(w, Ahead(new, y), new[y], Behind(new, y) \cup Range(Tail(t)))
    <3>1. PICK T : T = {new[y]} \cup Behind(new, y) \cup Range(Tail(t))
      OBVIOUS
    <3>2. Later(v, w, T)
      BY <2>1 DEF Later
    <3>3. new[y] \in Entries
      BY ElementOfSeq
    <3>4. EntryFounded(v, Ahead(new, y), new[y], Behind(new, y) \cup Range(Tail(t)))
      BY <1>3, <1>4
    <3> QED
      BY <3>1, <3>2, <3>3, <3>4, EntryAged
  <2> QED
    BY <1>3, <1>5, <1>7, <2>2, <2>3, Refilled
<1>11. Send(p, todo)
  BY <1>3, <1>7
<1>12. Wanted' \subseteq Wanted => TodoFounded(View', todo)
  BY <1>4, <1>10
<1> QED
  BY <1>8, <1>9, <1>11, <1>12, SentOrder

\* Expand: the artifacts of a credential, or of a source, take the place of their entry.
LEMMA ExpandOrder ==
    ASSUME OInv, NEW p \in Callers, Expand(p)
    PROVE LogInv' /\ SendInv'
<1>1. Typed /\ RowsAreSealed /\ LogInv /\ SendInv
  BY DEF OInv, IInv
<1>2. call[p].pc = "send" /\ UNCHANGED box
  BY DEF Expand
<1>3. PICK t : t = call[p].todo
  OBVIOUS
<1>4. PICK h : h = Now(p)
  OBVIOUS
<1>5. PICK v : v = View
  OBVIOUS
<1>6. t \in Seq(Entries) /\ t # <<>> /\ h = Head(t) /\ Rest(p) = Tail(t) /\ TodoFounded(v, t)
  BY <1>1, <1>2, <1>3, <1>4, <1>5, Sendings DEF Now, Rest, SendInv
<1>7. h \in Entries
  BY <1>6, HeadFounded
<1>8. PICK behind : EntryFounded(v, {}, h, behind)
  BY <1>6, HeadFounded
<1>9. CASE h.type = "artifacts" /\ Send(p, Artifacts(h.id) \o Rest(p))
  <2>1. PICK c \in Credentials : c = h.id
    BY <1>7, <1>9, EntryShapes
  <2>2. Registered(c)
    BY <1>5, <1>8, <1>9, <2>1 DEF EntryFounded, Registered, View
  <2>3. PICK new : new = Artifacts(c)
    OBVIOUS
  <2>4. new \in Seq(Entries)
    BY <1>1, <2>3, ArtifactsTyped
  <2>5. (\A e \in Range(new) : e.type # "grant") /\ Some(Range(new), "iss", c)
    <3>1. PICK owner, l : owner = Issuer(c) /\ l = log[owner]
      OBVIOUS
    <3>2. PICK a, b, d \in Seq(Entries) : Parts(c, owner, l, a, b, d)
      BY <1>1, <3>1, ArtifactsShape
    <3>3. Range(new) = Range(a) \cup Range(b) \cup Range(d)
      <4>1. a \o b \in Seq(Entries) /\ Range(a \o b) = Range(a) \cup Range(b)
        BY JoinedEntries, RangeJoined
      <4> QED
        BY <2>3, <3>2, <4>1, RangeJoined DEF Parts
    <3>4. \A e \in Range(a) : e.type = "source"
      <4>1. DOMAIN a = 1 .. Len(a)
        BY LenProperties
      <4>2. \A y \in 1 .. Len(a) : a[y] = Entry("source", Sources[c][y], <<>>)
        BY <3>2 DEF Parts
      <4>3. \A y \in 1 .. Len(a) : a[y].type = "source"
        BY <4>2, EntryFields
      <4> QED
        BY <4>1, <4>3 DEF Range
    <3>5. \A e \in Range(b) : e.type = "key"
      <4>1. DOMAIN b = 1 .. Len(b)
        BY LenProperties
      <4>2. \A y \in 1 .. Len(b) : b[y] = Entry("key", owner, l[y])
        BY <3>2 DEF Parts
      <4>3. \A y \in 1 .. Len(b) : b[y].type = "key"
        BY <4>2, EntryFields
      <4> QED
        BY <4>1, <4>3 DEF Range
    <3>6. (\A e \in Range(d) : e.type # "grant") /\ Some(Range(d), "iss", c)
      BY <3>2 DEF Entry, Some, Parts
    <3> QED
      BY <3>3, <3>4, <3>5, <3>6 DEF Some
  <2>6. \A y \in 1 .. Len(new) : EntryFounded(View, Ahead(new, y), new[y], Behind(new, y) \cup Range(Rest(p)))
    BY <1>1, <2>2, <2>3, ArtifactsFounded
  <2>7. Send(p, new \o Rest(p)) /\ Now(p).type = "artifacts" /\ Now(p).id = c
    BY <1>4, <1>9, <2>1, <2>3
  <2> QED
    BY <1>2, <2>4, <2>5, <2>6, <2>7, ExpandedOrder
<1>10. CASE /\ h.type = "source" /\ h.id \in credentials
            /\ Send(p, <<Entry("artifacts", h.id, <<>>), Entry("acdc", h.id, <<>>)>> \o Rest(p))
  <2>1. PICK s \in Credentials : s = h.id
    BY <1>7, <1>10, EntryShapes
  <2>2. PICK x, y \in Entries : x = Entry("artifacts", s, <<>>) /\ y = Entry("acdc", s, <<>>)
    BY CredentialEntry, Inception
  <2>3. x.type = "artifacts" /\ x.id = s /\ y.type = "acdc" /\ y.id = s
    BY <2>2 DEF Entry
  <2>4. PICK new : new = <<x, y>>
    OBVIOUS
  <2>5. new \in Seq(Entries) /\ Len(new) = 2 /\ new[1] = x /\ new[2] = y /\ Range(new) = {x, y}
    BY <2>4 DEF Range
  <2>6. RegistryOf[s] \in DOMAIN registries
    BY <1>1, <1>10, <2>1 DEF LogInv, Registered
  \* The issuance the source is sent for comes after it.
  <2>7. SourceNeeded(y, Range(Rest(p)))
    <3>1. EntryFounded(v, Ahead(t, 1), t[1], Behind(t, 1))
      <4>1. 1 \in 1 .. Len(t)
        BY <1>6, EmptySeq, LenProperties
      <4> QED
        BY <1>6, <4>1 DEF TodoFounded
    <3>2. t[1] = h
      BY <1>6, HeadTailProperties
    <3>3. SourceNeeded(h, Behind(t, 1))
      BY <1>10, <3>1, <3>2 DEF EntryFounded
    <3>4. Behind(t, 1) \subseteq Range(Rest(p))
      <4>1. Tail(t) \in Seq(Entries) /\ t = <<Head(t)>> \o Tail(t)
        BY <1>6, HeadTailProperties
      <4>2. PICK a, r : a = <<h>> /\ r = Tail(t)
        OBVIOUS
      <4>3. a \in Seq(Entries) /\ Len(a) = 1 /\ r \in Seq(Entries) /\ t = a \o r
        BY <1>6, <1>7, <4>1, <4>2
      <4>4. Joined(a, r, t)
        BY <4>3, JoinedEntries
      <4>5. Behind(a, 1) = {}
        BY <4>3 DEF Behind
      <4>6. Behind(t, 1) = Range(r)
        <5>1. 1 \in 1 .. Len(a)
          BY <4>3
        <5>2. Behind(t, 1) = Behind(a, 1) \cup Range(r)
          BY <4>4, <5>1 DEF Joined
        <5> QED
          BY <4>5, <5>2
      <4> QED
        BY <1>6, <4>2, <4>6
    <3> QED
      BY <2>1, <2>3, <3>3, <3>4 DEF SourceNeeded
  <2>8. ASSUME NEW i \in 1 .. Len(new)
        PROVE EntryFounded(View, Ahead(new, i), new[i], Behind(new, i) \cup Range(Rest(p)))
    <3>1. CASE i = 1
      <4>1. RegistryOf[x.id] \in DOMAIN v.registries
        BY <1>5, <2>3, <2>6 DEF View
      <4>2. EntryFounded(v, Ahead(new, 1), x, Behind(new, 1) \cup Range(Rest(p)))
        BY <2>3, <4>1 DEF EntryFounded
      <4> QED
        BY <1>5, <2>5, <3>1, <4>2
    <3>2. CASE i = 2
      <4>1. x \in Ahead(new, 2)
        BY <2>5 DEF Ahead
      <4>2. SourceFounded(v, Ahead(new, 2), y)
        BY <2>3, <4>1 DEF SourceFounded, Some
      <4>3. SourceNeeded(y, Behind(new, 2) \cup Range(Rest(p)))
        BY <2>7 DEF SourceNeeded
      <4>4. EntryFounded(v, Ahead(new, 2), y, Behind(new, 2) \cup Range(Rest(p)))
        BY <2>3, <4>2, <4>3 DEF EntryFounded
      <4> QED
        BY <1>5, <2>5, <3>2, <4>4
    <3> QED
      BY <2>5, <3>1, <3>2
  <2>9. Send(p, new \o Rest(p)) /\ Now(p).type = "source" /\ Now(p).id = s
    BY <1>4, <1>10, <2>1, <2>2, <2>4
  <2>10. (\A e \in Range(new) : e.type # "grant") /\ Some(Range(new), "acdc", s)
    BY <2>3, <2>5 DEF Some
  <2> QED
    BY <1>2, <2>5, <2>8, <2>9, <2>10, ExpandedOrder
<1>11. CASE h.type = "source" /\ Send(p, <<>>)
  <2>1. PICK none : none = <<>>
    OBVIOUS
  <2>2. none \in Seq(Entries) /\ Len(none) = 0 /\ Range(none) = {}
    BY <2>1 DEF Range
  <2>3. PICK w : w = View'
    OBVIOUS
  <2>4. TodoFounded(w, none)
    BY <2>2 DEF TodoFounded
  <2>5. Send(p, none)
    BY <1>11, <2>1
  <2> QED
    BY <1>2, <2>2, <2>3, <2>4, <2>5, SentOrder
<1> QED
  BY <1>4, <1>9, <1>10, <1>11 DEF Expand

\* The message that is due is founded in the box, and so is an issuance in all the
\* events wanted with it.
DueFounded(v, m) ==
    /\ m \in Messages
    /\ MessageFounded(v, v.sent, m)
    /\ m.type = "iss" /\ m.id \notin v.disturbed =>
          \A w \in v.wanted : w[1] = m.id => Entry("key", Issuer(m.id), w[2]) \in v.sent

\* It stands for the entry.
DueCovers(v, h, more) ==
    /\ h.type = "key" => h \in Range(more)
    /\ h.type = "vcp" => Some(Range(more), "vcp", RegistryOf[h.id])
    /\ h.type = "iss" /\ h.id \in DOMAIN v.iss => Some(Range(more), "iss", h.id)
    /\ h.type = "acdc" /\ h.id \in DOMAIN v.iss => Some(Range(more), "acdc", h.id)

\* An event of a log.
LEMMA LoggedEvent ==
    ASSUME Typed, NEW o \in Owners, NEW event, Has(o, event)
    PROVE event \in Events
<1>1. log[o] \in Seq(Events) /\ event \in Range(log[o])
  BY DEF Typed, Has
<1> QED
  BY <1>1, LenProperties, ElementOfSeq DEF Range

\* One message.
LEMMA One == \A m : Range(<<m>>) = {m}
BY DEF Range

\* What Forward puts in the box.
LEMMA DueMessage ==
    ASSUME OInv, NEW p \in Callers, Forwarding(p)
    PROVE /\ Due(Now(p)) = <<>> \/ \E m : Due(Now(p)) = <<m>> /\ DueFounded(View, m)
          /\ DueCovers(View, Now(p), Due(Now(p)))
<1>1. Typed /\ RowsAreSealed /\ LogInv /\ SendInv
  BY DEF OInv, IInv
<1>2. call[p].pc = "send" /\ Now(p).type \notin {"artifacts", "source"}
  BY DEF Forwarding
<1>3. PICK t, h, v : t = call[p].todo /\ h = Now(p) /\ v = View
  OBVIOUS
<1>4. t \in Seq(Entries) /\ t # <<>> /\ h = Head(t) /\ TodoFounded(v, t)
  BY <1>1, <1>2, <1>3, Sendings DEF Now, SendInv
<1>5. h \in Entries /\ h \in Range(t)
  BY <1>4, HeadFounded
<1>6. PICK behind : EntryFounded(v, {}, h, behind)
  BY <1>4, HeadFounded
<1>7. /\ v.sent = Range(box) /\ v.registries = registries /\ v.iss = iss /\ v.disturbed = disturbed
      /\ v.wanted = Wanted
  BY <1>3 DEF View
<1>8. \A type, id : ~Some({}, type, id)
  BY DEF Some
<1>9. CASE h.type = "key"
  <2>1. Due(h) = <<h>>
    BY <1>9 DEF Due
  <2>2. h \in Messages
    BY <1>5, <1>9 DEF Entries, Messages
  <2>3. KeyFounded(v, {}, h)
    BY <1>6, <1>9 DEF EntryFounded
  <2>4. MessageFounded(v, v.sent, h)
    BY <1>9, <2>3 DEF KeyFounded, MessageFounded
  <2>5. DueFounded(v, h)
    BY <1>9, <2>2, <2>4 DEF DueFounded
  <2>6. DueCovers(v, h, <<h>>)
    BY <1>9, One DEF DueCovers
  <2> QED
    BY <1>3, <2>1, <2>5, <2>6
<1>10. CASE h.type = "grant"
  <2>1. Due(h) = <<h>>
    BY <1>10 DEF Due
  <2>2. h \in Messages /\ h.id \in Credentials /\ h.event \in Events /\ h = Entry("grant", h.id, h.event)
    BY <1>5, <1>10 DEF Entries, Messages, Entry
  <2>3. <<h.id, h.event>> \in Wanted
    BY <1>2, <1>3, <1>5, <2>2 DEF Wanted
  <2>4. h.id \notin v.disturbed /\ Some(v.sent, "iss", h.id) => Entry("key", Issuer(h.id), h.event) \in v.sent
    BY <1>1, <1>3, <1>7, <2>3 DEF SendInv, IssuancesAnchored
  <2>5. MessageFounded(v, v.sent, h)
    BY <1>10, <2>4 DEF MessageFounded
  <2>6. DueFounded(v, h)
    BY <1>10, <2>2, <2>5 DEF DueFounded
  <2>7. DueCovers(v, h, <<h>>)
    BY <1>10 DEF DueCovers
  <2> QED
    BY <1>3, <2>1, <2>6, <2>7
<1>11. CASE h.type = "vcp"
  <2>1. PICK c \in Credentials : c = h.id
    BY <1>5, <1>11, EntryShapes
  <2>2. PICK r \in Registries : r = RegistryOf[c]
    BY IssuanceAssumption
  <2>3. PICK m : m = Entry("vcp", r, registries[r])
    OBVIOUS
  <2>4. Due(h) = <<m>>
    BY <1>11, <2>1, <2>2, <2>3 DEF Due, GetRegistry
  <2>5. m.type = "vcp" /\ m.id = r /\ m.event = registries[r]
    BY <2>3 DEF Entry
  <2>6. r \in DOMAIN registries /\ RegistryFounded(v, {}, h)
    BY <1>6, <1>7, <1>11, <2>1, <2>2 DEF EntryFounded
  <2>7. registries[r] \in Events
    <3>1. OwnerOf[r] \in Owners /\ Has(OwnerOf[r], registries[r])
      BY <1>1, <2>6, IssuanceAssumption DEF RowsAreSealed
    <3> QED
      BY <1>1, <3>1, LoggedEvent
  <2>8. m \in Messages
    BY <2>3, <2>7 DEF Messages, Entry
  <2>9. Entry("key", OwnerOf[r], registries[r]) \in v.sent
    BY <1>7, <2>1, <2>2, <2>6 DEF RegistryFounded, Issuer
  <2>10. MessageFounded(v, v.sent, m)
    BY <2>5, <2>9 DEF MessageFounded
  <2>11. DueFounded(v, m)
    BY <2>5, <2>8, <2>10 DEF DueFounded
  <2>12. DueCovers(v, h, <<m>>)
    BY <1>11, <2>1, <2>2, <2>5, One DEF DueCovers, Some
  <2> QED
    BY <1>3, <2>4, <2>11, <2>12
<1>12. CASE h.type = "iss" /\ h.id \in DOMAIN iss
  <2>1. PICK c \in Credentials : c = h.id
    BY <1>5, <1>12, EntryShapes
  <2>2. PICK m : m = Entry("iss", c, iss[c])
    OBVIOUS
  <2>3. Due(h) = <<m>>
    BY <1>12, <2>1, <2>2 DEF Due, GetCredentialEvents
  <2>4. m.type = "iss" /\ m.id = c /\ m.event = iss[c]
    BY <2>2 DEF Entry
  <2>5. iss[c] \in Events
    <3>1. Issuer(c) \in Owners /\ Has(Issuer(c), iss[c])
      BY <1>1, <1>12, <2>1, Issuers DEF RowsAreSealed
    <3> QED
      BY <1>1, <3>1, LoggedEvent
  <2>6. m \in Messages
    BY <2>2, <2>5 DEF Messages, Entry
  <2>7. IssuanceFounded(v, {}, h)
    BY <1>6, <1>12 DEF EntryFounded
  <2>8. Some(v.sent, "vcp", RegistryOf[c])
    BY <1>8, <2>1, <2>7 DEF IssuanceFounded
  <2>9. \A s \in Range(Sources[c]) \ v.disturbed : s \in DOMAIN v.iss => Some(v.sent, "acdc", s)
    BY <1>8, <2>1, <2>7 DEF IssuanceFounded
  <2>10. c \notin v.disturbed => \A w \in v.wanted : w[1] = c => Entry("key", Issuer(c), w[2]) \in v.sent
    BY <2>1, <2>7 DEF IssuanceFounded
  <2>11. <<c, iss[c]>> \in v.wanted
    BY <1>7, <1>12, <2>1, <2>5 DEF Wanted
  <2>12. c \notin v.disturbed => Entry("key", Issuer(c), iss[c]) \in v.sent
    BY <2>10, <2>11
  <2>13. MessageFounded(v, v.sent, m)
    BY <2>4, <2>8, <2>9, <2>12 DEF MessageFounded
  <2>14. DueFounded(v, m)
    BY <2>4, <2>6, <2>10, <2>13 DEF DueFounded
  <2>15. DueCovers(v, h, <<m>>)
    BY <1>12, <2>1, <2>4, One DEF DueCovers, Some
  <2> QED
    BY <1>3, <2>3, <2>14, <2>15
<1>13. CASE h.type = "acdc" /\ h.id \in DOMAIN iss
  <2>1. Due(h) = <<h>>
    <3>1. Len(<<Entry("iss", h.id, iss[h.id])>>) = 1 /\ Len(<<>>) = 0
      OBVIOUS
    <3>2. <<Entry("iss", h.id, iss[h.id])>> # <<>>
      BY <3>1
    <3> QED
      BY <1>13, <3>2 DEF Due, GetCredentialEvents
  <2>2. h \in Messages
    BY <1>5, <1>13 DEF Entries, Messages
  <2>3. SourceFounded(v, {}, h)
    BY <1>6, <1>13 DEF EntryFounded
  <2>4. MessageFounded(v, v.sent, h)
    BY <1>7, <1>8, <1>13, <2>3 DEF SourceFounded, MessageFounded
  <2>5. DueFounded(v, h)
    BY <1>13, <2>2, <2>4 DEF DueFounded
  <2>6. DueCovers(v, h, <<h>>)
    BY <1>13, One DEF DueCovers, Some
  <2> QED
    BY <1>3, <2>1, <2>5, <2>6
<1>14. CASE h.type \in {"iss", "acdc"} /\ h.id \notin DOMAIN iss
  <2>1. Due(h) = <<>>
    BY <1>14 DEF Due, GetCredentialEvents
  <2>2. DueCovers(v, h, <<>>)
    BY <1>7, <1>14 DEF DueCovers
  <2> QED
    BY <1>3, <2>1, <2>2
<1> QED
  BY <1>2, <1>3, <1>5, <1>9, <1>10, <1>11, <1>12, <1>13, <1>14 DEF Entries

\* The message arrives, or does not, and the call goes on or throws.
LEMMA Delivered ==
    ASSUME OInv, NEW p \in Callers, Forwarding(p), NEW more, more \in {<<>>, Due(Now(p))},
           box' = box \o more, UNCHANGED <<registries, iss, disturbed>>, Wanted' \subseteq Wanted
    PROVE /\ Range(box') = Range(box) \cup Range(more) /\ box' \in Seq(Messages)
          /\ BoxFounded(View', box')
          /\ IssuancesAnchored(View')
<1>1. SendInv
  BY DEF OInv
<1>2. PICK b, v, w : b = box /\ v = View /\ w = View'
  OBVIOUS
<1>3. b \in Seq(Messages) /\ BoxFounded(v, b) /\ IssuancesAnchored(v) /\ v.sent = Range(b)
  BY <1>1, <1>2 DEF SendInv, View
<1>4. /\ w.disturbed = v.disturbed /\ w.iss = v.iss /\ w.wanted \subseteq v.wanted /\ w.sent = Range(box')
  BY <1>2 DEF View
<1>5. CASE more = <<>>
  <2>1. box' = b /\ Range(more) = {}
    BY <1>2, <1>3, <1>5, EmptySeq, ConcatProperties DEF Range
  <2>2. BoxFounded(w, b)
    BY <1>3, <1>4 DEF BoxFounded, MessageFounded
  <2>3. IssuancesAnchored(w)
    BY <1>3, <1>4, <2>1 DEF IssuancesAnchored
  <2> QED
    BY <1>2, <1>3, <2>1, <2>2, <2>3
<1>6. ASSUME NEW m, more = <<m>>, DueFounded(v, m)
      PROVE /\ Range(box') = Range(box) \cup Range(more) /\ box' \in Seq(Messages)
            /\ BoxFounded(w, box')
            /\ IssuancesAnchored(w)
  <2>1. PICK c : c = Append(b, m)
    OBVIOUS
  <2>2. m \in Messages /\ MessageFounded(v, Range(b), m)
    BY <1>3, <1>6 DEF DueFounded
  <2>3. box' = c
    BY <1>2, <1>3, <1>6, <2>1, <2>2, AppendIsConcat
  <2>4. c \in Seq(Messages) /\ Len(c) = Len(b) + 1 /\ c[Len(b) + 1] = m /\ \A i \in 1 .. Len(b) : c[i] = b[i]
    BY <1>3, <2>1, <2>2, AppendProperties
  <2>5. Len(b) \in Nat /\ DOMAIN b = 1 .. Len(b) /\ DOMAIN c = 1 .. Len(c)
    BY <1>3, <2>4, LenProperties
  <2>6. Range(b) = {b[i] : i \in 1 .. Len(b)} /\ Range(c) = {c[i] : i \in 1 .. Len(c)}
    BY <2>5 DEF Range
  <2>7. Range(c) = Range(b) \cup {m}
    <3>1. \A i \in 1 .. Len(c) : i \in 1 .. Len(b) \/ i = Len(b) + 1
      BY <2>4, <2>5
    <3>2. \A i \in 1 .. Len(b) : i \in 1 .. Len(c)
      BY <2>4, <2>5
    <3>3. Len(b) + 1 \in 1 .. Len(c)
      BY <2>4, <2>5
    <3>4. Range(c) \subseteq Range(b) \cup {m}
      BY <2>4, <2>6, <3>1
    <3>5. Range(b) \cup {m} \subseteq Range(c)
      BY <2>4, <2>6, <3>2, <3>3
    <3> QED
      BY <3>4, <3>5
  <2>8. BoxFounded(w, c)
    <3> SUFFICES ASSUME NEW i \in 1 .. Len(c) PROVE MessageFounded(w, Ahead(c, i), c[i])
      BY DEF BoxFounded
    <3>1. MessageFounded(v, Ahead(c, i), c[i])
      <4>1. CASE i \in 1 .. Len(b)
        <5>1. \A j \in 1 .. i - 1 : c[j] = b[j]
          BY <2>4, <2>5, <4>1
        <5>2. Ahead(c, i) = Ahead(b, i) /\ c[i] = b[i]
          BY <2>4, <4>1, <5>1 DEF Ahead
        <5>3. MessageFounded(v, Ahead(b, i), b[i])
          BY <1>3, <4>1 DEF BoxFounded
        <5> QED
          BY <5>2, <5>3
      <4>2. CASE i = Len(b) + 1
        <5>1. (Len(b) + 1) - 1 = Len(b)
          BY <2>5
        <5>2. Ahead(c, i) = Range(b) /\ c[i] = m
          BY <2>4, <2>6, <4>2, <5>1 DEF Ahead
        <5> QED
          BY <2>2, <5>2
      <4>3. i \in 1 .. Len(b) \/ i = Len(b) + 1
        BY <2>4, <2>5
      <4> QED
        BY <4>1, <4>2, <4>3
    <3> QED
      BY <1>4, <3>1 DEF MessageFounded
  <2>9. IssuancesAnchored(w)
    <3> SUFFICES ASSUME NEW x \in v.wanted, x[1] \notin v.disturbed, Some(w.sent, "iss", x[1])
                 PROVE Entry("key", Issuer(x[1]), x[2]) \in w.sent
      BY <1>4 DEF IssuancesAnchored
    <3>1. w.sent = v.sent \cup {m}
      BY <1>3, <1>4, <2>3, <2>7
    <3>2. CASE Some(v.sent, "iss", x[1])
      BY <1>3, <3>1, <3>2 DEF IssuancesAnchored
    <3>3. CASE m.type = "iss" /\ m.id = x[1]
      BY <1>6, <3>1, <3>3 DEF DueFounded
    <3> QED
      BY <3>1, <3>2, <3>3 DEF Some
  <2> QED
    BY <1>2, <1>6, <2>3, <2>4, <2>7, <2>8, <2>9, One
<1>7. more = <<>> \/ \E m : more = <<m>> /\ DueFounded(v, m)
  BY <1>2, DueMessage
<1> QED
  BY <1>2, <1>5, <1>6, <1>7

\* Forward: the message arrives, and the call goes on with the next.
LEMMA ForwardOrder ==
    ASSUME OInv, NEW p \in Callers, Forward(p)
    PROVE LogInv' /\ SendInv'
<1>1. Typed /\ LogInv /\ SendInv
  BY DEF OInv, IInv
<1>2. call[p].pc = "send" /\ Forwarding(p) /\ box' = box \o Due(Now(p)) /\ Send(p, Rest(p))
  BY DEF Forward, Forwarding
<1>3. PICK t : t = call[p].todo
  OBVIOUS
<1>4. t \in Seq(Entries) /\ t # <<>> /\ Now(p) = Head(t) /\ Rest(p) = Tail(t)
  BY <1>1, <1>2, <1>3, Sendings DEF Now, Rest
<1>5. Tail(t) \in Seq(Entries) /\ Range(Tail(t)) \subseteq Range(t)
  BY <1>4, TailWithin
<1>6. PICK q : q = IF Tail(t) = <<>> THEN Idle ELSE [pc |-> "send", todo |-> Tail(t)]
  OBVIOUS
<1>7. q \in Calls /\ q.pc \in {"idle", "send"} /\ (q.pc = "send" => q.todo = Tail(t))
  <2>1. Tail(t) # <<>> => [pc |-> "send", todo |-> Tail(t)] \in SendingCalls
    BY <1>5 DEF SendingCalls
  <2> QED
    BY <1>6, <2>1 DEF Calls, Idle
<1>8. call' = [call EXCEPT ![p] = q] /\ UNCHANGED <<log, registries, credentials, iss, disturbed>>
  BY <1>2, <1>4, <1>6 DEF Send
<1>9. \A e \in Range(Tail(t)) : e.type = "grant" => <<e.id, e.event>> \in Wanted
  <2> SUFFICES ASSUME NEW e \in Range(Tail(t)), e.type = "grant" PROVE <<e.id, e.event>> \in Wanted
    OBVIOUS
  <2>1. e \in Range(t)
    BY <1>5
  <2>2. e \in Entries
    BY <1>4, <2>1, LenProperties, ElementOfSeq DEF Range
  <2>3. e = Entry("grant", e.id, e.event) /\ e.id \in Credentials /\ e.event \in Events
    BY <2>2 DEF Entries, Entry
  <2> QED
    BY <1>2, <1>3, <2>1, <2>3 DEF Wanted
<1>10. Wanted' \subseteq Wanted
  BY <1>1, <1>7, <1>8, <1>9, WantedStep
<1>11. PICK more : more = Due(Now(p))
  OBVIOUS
<1>12. /\ Range(box') = Range(box) \cup Range(more) /\ box' \in Seq(Messages)
       /\ BoxFounded(View', box')
       /\ IssuancesAnchored(View')
  BY <1>2, <1>8, <1>10, <1>11, Delivered
<1>13. TodoFounded(View', Tail(t))
  <2>1. PICK v, w, h : v = View /\ w = View' /\ h = Now(p)
    OBVIOUS
  <2>2. TodoFounded(v, t)
    BY <1>1, <1>2, <1>3, <2>1 DEF SendInv
  <2>3. /\ w.sent = v.sent \cup Range(more) /\ w.wanted \subseteq v.wanted
        /\ w.registries = v.registries /\ w.iss = v.iss /\ w.disturbed = v.disturbed
    BY <1>8, <1>10, <1>12, <2>1 DEF View
  <2>4. DueCovers(v, h, more)
    BY <1>2, <1>11, <2>1, DueMessage
  <2>5. h.type \notin {"artifacts", "source"}
    BY <1>2, <2>1 DEF Forwarding
  <2>6. PICK none : none = <<>>
    OBVIOUS
  <2>7. none \in Seq(Entries) /\ Len(none) = 0 /\ Range(none) = {}
    BY <2>6 DEF Range
  <2>8. Covers(v, w, h, Range(none))
    BY <2>3, <2>4, <2>5, <2>7 DEF Covers, DueCovers, Some
  <2>9. TodoFounded(w, none \o Tail(t))
    <3>1. \A y \in 1 .. Len(none) :
              EntryFounded(w, Ahead(none, y), none[y], Behind(none, y) \cup Range(Tail(t)))
      BY <2>7
    <3>2. Covers(v, w, Head(t), Range(none))
      BY <1>4, <2>1, <2>8
    <3> QED
      BY <1>4, <2>2, <2>7, <3>1, <3>2, Refilled
  <2>10. none \o Tail(t) = Tail(t)
    BY <1>5, <2>6, ConcatEmptySeq
  <2> QED
    BY <2>1, <2>9, <2>10
<1>14. SendInv'
  <2>1. Range(box) \subseteq Range(box')
    BY <1>12
  <2> QED
    BY <1>1, <1>7, <1>8, <1>10, <1>12, <1>13, <2>1, SendStep
<1>15. LogInv'
  <2>1. LogsInOrder' /\ \A o \in Owners : \A event : Has(o, event) => Has(o, event)'
    BY <1>1, <1>8 DEF LogInv, LogsInOrder, Has
  <2> QED
    BY <1>1, <1>7, <1>8, <1>10, <2>1, LogStep
<1> QED
  BY <1>14, <1>15

\* A request fails: its message has arrived or not.
LEMMA FailOrder ==
    ASSUME OInv, NEW p \in Callers, Fail(p)
    PROVE LogInv' /\ SendInv'
<1>1. Typed /\ LogInv /\ SendInv
  BY DEF OInv, IInv
<1>2. Throw(p)
  BY DEF Fail
<1>3. CASE UNCHANGED box
  BY <1>2, <1>3, ThrownOrder
<1>4. CASE Forwarding(p) /\ box' = box \o Due(Now(p))
  <2>1. Idle \in Calls /\ Idle.pc = "idle"
    BY DEF Calls, Idle
  <2>2. call' = [call EXCEPT ![p] = Idle] /\ UNCHANGED <<log, registries, credentials, iss, disturbed>>
    BY <1>2 DEF Throw
  <2>3. Wanted' \subseteq Wanted
    BY <1>1, <2>1, <2>2, WantedStep
  <2>4. PICK more : more = Due(Now(p))
    OBVIOUS
  <2>5. /\ Range(box') = Range(box) \cup Range(more) /\ box' \in Seq(Messages)
        /\ BoxFounded(View', box')
        /\ IssuancesAnchored(View')
    BY <1>4, <2>2, <2>3, <2>4, Delivered
  <2>6. SendInv'
    <3>1. Range(box) \subseteq Range(box')
      BY <2>5
    <3> QED
      BY <1>1, <2>1, <2>2, <2>3, <2>5, <3>1, SendStep
  <2>7. LogInv'
    <3>1. LogsInOrder' /\ \A o \in Owners : \A event : Has(o, event) => Has(o, event)'
      BY <1>1, <2>2 DEF LogInv, LogsInOrder, Has
    <3> QED
      BY <1>1, <2>1, <2>2, <2>3, <3>1, LogStep
  <2> QED
    BY <2>6, <2>7
<1> QED
  BY <1>3, <1>4 DEF Fail


\* Store of a registry: nothing that is sent names it yet.
LEMMA StoreRegistryOrder ==
    ASSUME OInv, NEW p \in Callers, Store(p), NEW r \in Registries, Last(call[p].event) = Seal("vcp", r)
    PROVE LogInv' /\ SendInv'
<1>1. Typed /\ LogInv /\ SendInv
  BY DEF OInv, IInv
<1>2. call[p].pc = "store" /\ IsSealing(p)
  BY DEF Store, IsSealing
<1>3. Last(call[p].event)[1] = "vcp" /\ Last(call[p].event)[2] = r
  BY DEF Seal
<1>4. /\ registries' = Upsert(registries, r, call[p].event)
      /\ call' = [call EXCEPT ![p] = Idle]
      /\ UNCHANGED <<log, credentials, iss, box, disturbed>>
  BY <1>3 DEF Store, SealedBy
<1>5. /\ r \notin DOMAIN registries
      /\ \A q \in Callers : IsSealing(q) /\ Last(call[q].event) = Seal("vcp", r) => q = p
  BY <1>1, <1>2 DEF LogInv, MadeOnce
<1>6. /\ DOMAIN registries' = DOMAIN registries \cup {r}
      /\ \A x \in DOMAIN registries : registries'[x] = registries[x]
  BY <1>4, <1>5 DEF Upsert
<1>7. Idle \in Calls /\ Idle.pc = "idle"
  BY DEF Calls, Idle
<1>8. call'[p] = Idle /\ \A x \in Callers \ {p} : call'[x] = call[x]
  BY <1>1, <1>4 DEF Typed
<1>9. Wanted' \subseteq Wanted
  BY <1>1, <1>4, <1>7, WantedStep
<1>10. PICK v, w : v = View /\ w = View'
  OBVIOUS
<1>11. /\ w.sent = v.sent /\ w.iss = v.iss /\ w.disturbed = v.disturbed /\ w.wanted \subseteq v.wanted
       /\ v.registries = registries /\ w.registries = registries'
  BY <1>4, <1>9, <1>10 DEF View
<1>12. \A T : Later(v, w, T)
  BY <1>6, <1>11 DEF Later
<1>13. BoxFounded(w, box) /\ IssuancesAnchored(w)
  <2>1. BoxFounded(v, box) /\ IssuancesAnchored(v)
    BY <1>1, <1>10 DEF SendInv
  <2> QED
    BY <1>11, <2>1 DEF BoxFounded, MessageFounded, IssuancesAnchored
<1>14. ASSUME NEW x \in Callers, call'[x].pc = "send" PROVE TodoFounded(w, call'[x].todo)
  <2>1. call'[x] = call[x]
    BY <1>7, <1>8, <1>14
  <2>2. PICK t : t = call[x].todo
    OBVIOUS
  <2>3. t \in Seq(Entries) /\ TodoFounded(v, t)
    BY <1>1, <1>10, <1>14, <2>1, <2>2, Sendings DEF SendInv
  <2> QED
    BY <1>12, <2>1, <2>2, <2>3, TodoAged
<1>15. SendInv'
  BY <1>1, <1>4, <1>10, <1>13, <1>14 DEF SendInv
<1>16. LogsInOrder'
  BY <1>1, <1>4 DEF LogInv, LogsInOrder
<1>17. BuiltOnLog'
  <2> SUFFICES ASSUME NEW x \in Callers, IsSealing(x)' PROVE Has(call[x].owner, Front(call[x].event))'
    BY DEF BuiltOnLog
  <2>1. call'[x] = call[x] /\ IsSealing(x)
    BY <1>7, <1>8 DEF IsSealing
  <2> QED
    BY <1>1, <1>4, <2>1 DEF LogInv, BuiltOnLog, Has
<1>18. MadeOnce'
  <2> SUFFICES ASSUME NEW x \in Callers, NEW s \in Registries, IsSealing(x)', Last(call'[x].event) = Seal("vcp", s)
               PROVE /\ s \notin DOMAIN registries'
                     /\ \A y \in Callers : IsSealing(y)' /\ Last(call'[y].event) = Seal("vcp", s) => y = x
    BY DEF MadeOnce
  <2>1. x # p /\ call'[x] = call[x] /\ IsSealing(x)
    BY <1>7, <1>8 DEF IsSealing
  <2>2. /\ s \notin DOMAIN registries
        /\ \A y \in Callers : IsSealing(y) /\ Last(call[y].event) = Seal("vcp", s) => y = x
    BY <1>1, <2>1 DEF LogInv, MadeOnce
  <2>3. s # r
    BY <1>5, <2>1
  <2>4. \A y \in Callers : IsSealing(y)' => call'[y] = call[y] /\ IsSealing(y)
    BY <1>7, <1>8 DEF IsSealing
  <2> QED
    BY <1>6, <2>2, <2>3, <2>4
<1>19. \A x \in credentials' : Registered(x)'
  BY <1>1, <1>4, <1>6 DEF LogInv, Registered
<1>20. \A x \in Wanted' : Has(Issuer(x[1]), x[2])'
  BY <1>1, <1>4, <1>9 DEF LogInv, Has
<1> QED
  BY <1>15, <1>16, <1>17, <1>18, <1>19, <1>20 DEF LogInv

\* Store of an issuance: when something that is sent rests on it, it is disturbed.
LEMMA StoreIssuanceOrder ==
    ASSUME OInv, NEW p \in Callers, Store(p), NEW c \in Credentials, Last(call[p].event) = Seal("iss", c),
           Has(Issuer(c), call[p].event)
    PROVE LogInv' /\ SendInv'
<1>1. Typed /\ LogInv /\ SendInv
  BY DEF OInv, IInv
<1>2. call[p].pc = "store"
  BY DEF Store
<1>3. Last(call[p].event)[1] = "iss" /\ Last(call[p].event)[2] = c
  BY DEF Seal
<1>4. PICK event : event = call[p].event
  OBVIOUS
<1>5. /\ iss' = Upsert(iss, c, event)
      /\ disturbed' = IF Begun(c) THEN disturbed \cup {c} ELSE disturbed
      /\ call' = [call EXCEPT ![p] = Idle]
      /\ UNCHANGED <<log, credentials, registries, box>>
  BY <1>3, <1>4 DEF Store, SealedBy
<1>6. DOMAIN iss' = DOMAIN iss \cup {c} /\ iss'[c] = event /\ \A x \in DOMAIN iss \ {c} : iss'[x] = iss[x]
  BY <1>5 DEF Upsert
<1>7. Idle.pc = "idle"
  BY DEF Idle
<1>8. call'[p] = Idle /\ \A x \in Callers \ {p} : call'[x] = call[x]
  BY <1>1, <1>5 DEF Typed
<1>9. \A x \in Callers : call'[x].pc = "send" => call'[x] = call[x]
  BY <1>7, <1>8
<1>10. \A x \in Wanted' : x \in Wanted \/ x = <<c, event>>
  BY <1>6, <1>9 DEF Wanted
<1>11. PICK v, w : v = View /\ w = View'
  OBVIOUS
<1>12. /\ w.sent = Range(box) /\ v.sent = Range(box) /\ w.registries = v.registries
       /\ v.iss = iss /\ w.iss = iss' /\ v.disturbed = disturbed /\ w.disturbed = disturbed'
       /\ v.wanted = Wanted /\ w.wanted = Wanted'
  BY <1>5, <1>11 DEF View
<1>13. /\ v.disturbed \subseteq w.disturbed
       /\ \A s \in DOMAIN w.iss \ DOMAIN v.iss : s = c
       /\ \A x \in w.wanted \ v.wanted : x[1] = c
  BY <1>5, <1>6, <1>10, <1>12
<1>14. c \in w.disturbed \/ ~Begun(c)
  BY <1>5, <1>12
<1>15. box \in Seq(Messages) /\ BoxFounded(v, box) /\ IssuancesAnchored(v)
  BY <1>1, <1>11 DEF SendInv
<1>16. ASSUME NEW m \in Range(box), m.type = "iss", m.id = c \/ c \in Range(Sources[m.id])
       PROVE c \in w.disturbed
  <2>1. m \in Messages /\ \E i \in DOMAIN box : box[i] = m
    BY <1>15, LenProperties, ElementOfSeq DEF Range
  <2>2. m.id \in Credentials
    BY <1>16, <2>1 DEF Messages
  <2> QED
    BY <1>14, <1>16, <2>1, <2>2 DEF Begun
<1>17. BoxFounded(w, box)
  <2> SUFFICES ASSUME NEW i \in 1 .. Len(box) PROVE MessageFounded(w, Ahead(box, i), box[i])
    BY DEF BoxFounded
  <2>1. PICK m, S : m = box[i] /\ S = Ahead(box, i)
    OBVIOUS
  <2>2. m \in Range(box)
    BY <1>15, <2>1, LenProperties DEF Range
  <2>3. MessageFounded(v, S, m)
    BY <1>15, <2>1 DEF BoxFounded
  <2>4. ASSUME m.type = "iss", NEW s \in Range(Sources[m.id]) \ w.disturbed, s \in DOMAIN w.iss
        PROVE s \in DOMAIN v.iss
    BY <1>13, <1>16, <2>2, <2>4
  <2>5. m.type = "iss" => \A s \in Range(Sources[m.id]) \ w.disturbed : s \in DOMAIN w.iss => Some(S, "acdc", s)
    BY <1>13, <2>3, <2>4 DEF MessageFounded
  <2>6. MessageFounded(w, S, m)
    BY <1>13, <2>3, <2>5 DEF MessageFounded
  <2> QED
    BY <2>1, <2>6
<1>18. IssuancesAnchored(w)
  <2> SUFFICES ASSUME NEW x \in w.wanted, x[1] \notin w.disturbed, Some(w.sent, "iss", x[1])
               PROVE Entry("key", Issuer(x[1]), x[2]) \in w.sent
    BY DEF IssuancesAnchored
  <2>1. x[1] # c
    BY <1>12, <1>16 DEF Some
  <2> QED
    BY <1>12, <1>13, <1>15, <2>1 DEF IssuancesAnchored
<1>19. ASSUME NEW x \in Callers, call'[x].pc = "send" PROVE TodoFounded(w, call'[x].todo)
  <2>1. call'[x] = call[x]
    BY <1>9, <1>19
  <2>2. PICK t : t = call[x].todo
    OBVIOUS
  <2>3. t \in Seq(Entries) /\ TodoFounded(v, t)
    BY <1>1, <1>11, <1>19, <2>1, <2>2, Sendings DEF SendInv
  <2>4. ASSUME NEW d \in Credentials, Entry("iss", d, <<>>) \in Range(t), d = c \/ c \in Range(Sources[d])
        PROVE c \in w.disturbed
    <3>1. \E i \in DOMAIN t : t[i] = Entry("iss", d, <<>>)
      BY <2>4 DEF Range
    <3> QED
      BY <1>14, <1>19, <2>1, <2>2, <2>4, <3>1 DEF Begun
  <2>5. Later(v, w, Range(t))
    BY <1>12, <1>13, <2>4 DEF Later
  <2> QED
    BY <2>1, <2>2, <2>3, <2>5, TodoAged
<1>20. SendInv'
  BY <1>5, <1>11, <1>15, <1>17, <1>18, <1>19 DEF SendInv
<1>21. LogsInOrder'
  BY <1>1, <1>5 DEF LogInv, LogsInOrder
<1>22. \A y \in Callers : IsSealing(y)' => call'[y] = call[y] /\ IsSealing(y)
  BY <1>7, <1>8 DEF IsSealing
<1>23. BuiltOnLog'
  <2> SUFFICES ASSUME NEW x \in Callers, IsSealing(x)' PROVE Has(call[x].owner, Front(call[x].event))'
    BY DEF BuiltOnLog
  <2> QED
    BY <1>1, <1>5, <1>22 DEF LogInv, BuiltOnLog, Has
<1>24. MadeOnce'
  <2> SUFFICES ASSUME NEW x \in Callers, NEW s \in Registries, IsSealing(x)', Last(call'[x].event) = Seal("vcp", s)
               PROVE /\ s \notin DOMAIN registries
                     /\ \A y \in Callers : IsSealing(y)' /\ Last(call'[y].event) = Seal("vcp", s) => y = x
    BY <1>5 DEF MadeOnce
  <2>1. IsSealing(x) /\ Last(call[x].event) = Seal("vcp", s)
    BY <1>22
  <2>2. /\ s \notin DOMAIN registries
        /\ \A y \in Callers : IsSealing(y) /\ Last(call[y].event) = Seal("vcp", s) => y = x
    BY <1>1, <2>1 DEF LogInv, MadeOnce
  <2> QED
    BY <1>22, <2>2
<1>25. \A x \in credentials' : Registered(x)'
  BY <1>1, <1>5 DEF LogInv, Registered
<1>26. \A x \in Wanted' : Has(Issuer(x[1]), x[2])'
  <2> SUFFICES ASSUME NEW x \in Wanted' PROVE Has(Issuer(x[1]), x[2])
    BY <1>5 DEF Has
  <2>1. CASE x \in Wanted
    BY <1>1, <2>1 DEF LogInv
  <2>2. CASE x = <<c, event>>
    BY <1>4, <2>2
  <2> QED
    BY <1>10, <2>1, <2>2
<1> QED
  BY <1>20, <1>21, <1>23, <1>24, <1>25, <1>26 DEF LogInv

\* Store, whichever of the two it is.
LEMMA StoreOrder ==
    ASSUME OInv, NEW p \in Callers, Store(p)
    PROVE LogInv' /\ SendInv'
<1>1. Typed /\ SealsFounded
  BY DEF OInv, IInv
<1>2. call[p].pc = "store" /\ IsSealing(p)
  BY DEF Store, IsSealing
<1>3. PICK o, event : o = call[p].owner /\ event = call[p].event
  OBVIOUS
<1>4. Sealable(o, Last(event)) /\ Has(o, event)
  BY <1>1, <1>2, <1>3 DEF SealsFounded
<1>5. CASE \E r \in Registries : Last(event) = Seal("vcp", r)
  BY <1>3, <1>5, StoreRegistryOrder
<1>6. CASE \E c \in credentials : Last(event) = Seal("iss", c) /\ o = Issuer(c)
  <2>1. PICK c \in credentials : Last(event) = Seal("iss", c) /\ o = Issuer(c)
    BY <1>6
  <2>2. c \in Credentials
    BY <1>1 DEF Typed
  <2> QED
    BY <1>3, <1>4, <2>1, <2>2, StoreIssuanceOrder
<1> QED
  BY <1>4, <1>5, <1>6 DEF Sealable

\* The witnesses do not agree.
LEMMA FailCommitOrder ==
    ASSUME OInv, NEW p \in Callers, FailCommit(p)
    PROVE LogInv' /\ SendInv'
BY ThrownOrder DEF FailCommit

\* Nothing is sent yet.
LEMMA OrderInitially == Init => LogInv /\ SendInv
<1> SUFFICES ASSUME Init PROVE LogInv /\ SendInv
  OBVIOUS
<1>1. /\ log = [o \in Owners |-> <<<<>>>>] /\ registries = <<>> /\ iss = <<>>
      /\ credentials = {} /\ box = <<>> /\ call = [p \in Callers |-> Idle]
  BY DEF Init
<1>2. \A p \in Callers : call[p].pc = "idle"
  BY <1>1 DEF Idle
<1>3. DOMAIN iss = {}
  BY <1>1
<1>4. Wanted = {}
  BY <1>2, <1>3 DEF Wanted
<1>5. InOrder(<<<<>>>>)
  <2>1. PICK rows : rows = <<<<>>>>
    OBVIOUS
  <2>2. Len(rows) = 1 /\ rows[1] = <<>>
    BY <2>1
  <2> QED
    BY <2>1, <2>2 DEF InOrder
<1>6. LogInv
  BY <1>1, <1>2, <1>4, <1>5 DEF LogInv, LogsInOrder, BuiltOnLog, MadeOnce, IsSealing
<1>7. PICK v : v = View
  OBVIOUS
<1>8. v.wanted = {}
  BY <1>4, <1>7 DEF View
<1>9. IssuancesAnchored(v)
  BY <1>8 DEF IssuancesAnchored
<1>10. box \in Seq(Messages) /\ Len(box) = 0
  BY <1>1
<1>11. BoxFounded(v, box)
  BY <1>10 DEF BoxFounded
<1>12. SendInv
  BY <1>2, <1>7, <1>9, <1>10, <1>11 DEF SendInv
<1> QED
  BY <1>6, <1>12

\* Every step keeps what is to be sent founded.
LEMMA OrderInductive == OInv /\ [Next]_vars => OInv'
<1> SUFFICES ASSUME OInv, [Next]_vars PROVE LogInv' /\ SendInv'
  BY Inductive DEF OInv
<1>1. CASE UNCHANGED vars
  <2>1. UNCHANGED <<log, registries, credentials, iss, box, call, disturbed>>
    BY <1>1 DEF vars
  <2>2. Wanted' = Wanted
    BY <2>1 DEF Wanted
  <2>3. View' = View
    BY <2>1, <2>2 DEF View
  <2>4. SendInv'
    BY <2>1, <2>3 DEF OInv, SendInv
  <2>5. LogInv'
    BY <2>1, <2>2 DEF OInv, LogInv, LogsInOrder, BuiltOnLog, MadeOnce, Registered, IsSealing, Has
  <2> QED
    BY <2>4, <2>5
<1>2. ASSUME NEW c \in Credentials, CreateCredential(c) PROVE LogInv' /\ SendInv'
  BY <1>2, CreateCredentialOrder
<1>3. ASSUME NEW p \in Callers, NEW r \in Registries, CreateRegistry(p, r) PROVE LogInv' /\ SendInv'
  BY <1>3, CreateRegistryOrder
<1>4. ASSUME NEW p \in Callers, NEW c \in Credentials, IssueCredential(p, c) PROVE LogInv' /\ SendInv'
  BY <1>4, IssueCredentialOrder
<1>5. ASSUME NEW p \in Callers, NEW c \in Requested, SendCredentialArtifacts(p, c) PROVE LogInv' /\ SendInv'
  BY <1>5, SendCredentialArtifactsOrder
<1>6. ASSUME NEW p \in Callers, NEW c \in Requested, Grant(p, c) PROVE LogInv' /\ SendInv'
  BY <1>6, GrantOrder
<1>7. ASSUME NEW p \in Callers, Commit(p) PROVE LogInv' /\ SendInv'
  BY <1>7, CommitOrder
<1>8. ASSUME NEW p \in Callers, SendToWitness(p) PROVE LogInv' /\ SendInv'
  BY <1>8, SendToWitnessOrder
<1>9. ASSUME NEW p \in Callers, Store(p) PROVE LogInv' /\ SendInv'
  BY <1>9, StoreOrder
<1>10. ASSUME NEW p \in Callers, Expand(p) PROVE LogInv' /\ SendInv'
  BY <1>10, ExpandOrder
<1>11. ASSUME NEW p \in Callers, Forward(p) PROVE LogInv' /\ SendInv'
  BY <1>11, ForwardOrder
<1>12. ASSUME NEW p \in Callers, FailCommit(p) PROVE LogInv' /\ SendInv'
  BY <1>12, FailCommitOrder
<1>13. ASSUME NEW p \in Callers, Fail(p) PROVE LogInv' /\ SendInv'
  BY <1>13, FailOrder
<1> QED
  BY <1>1, <1>2, <1>3, <1>4, <1>5, <1>6, <1>7, <1>8, <1>9, <1>10, <1>11, <1>12, <1>13 DEF Next

\* A box that is founded message by message is founded in order.
LEMMA BoxIsFounded == SendInv => FoundedInOrder
<1> SUFFICES ASSUME SendInv PROVE FoundedInOrder
  OBVIOUS
<1>1. box \in Seq(Messages) /\ DOMAIN box = 1 .. Len(box)
  BY LenProperties DEF SendInv
<1>2. PICK v : v = View
  OBVIOUS
<1>3. v.disturbed = disturbed /\ v.iss = iss
  BY <1>2 DEF View
<1>4. \A i, e : Before(i, e) <=> e \in Ahead(box, i)
  BY DEF Before, Ahead
<1>5. \A i, type, id : SomeBefore(i, type, id) <=> Some(Ahead(box, i), type, id)
  BY DEF SomeBefore, Some, Ahead
<1> SUFFICES ASSUME NEW i \in DOMAIN box
             PROVE LET e == box[i]
                       settled == e.id \notin disturbed
                   IN  CASE e.type = "key"  -> e.event # <<>> => Before(i, Entry("key", e.id, Front(e.event)))
                         [] e.type = "vcp"  -> Before(i, Entry("key", OwnerOf[e.id], e.event))
                         [] e.type = "acdc" -> settled => SomeBefore(i, "iss", e.id)
                         [] e.type = "iss"  ->
                               /\ SomeBefore(i, "vcp", RegistryOf[e.id])
                               /\ settled => Before(i, Entry("key", Issuer(e.id), e.event))
                               /\ \A s \in Range(Sources[e.id]) \ disturbed :
                                     s \in DOMAIN iss => SomeBefore(i, "acdc", s)
                         [] e.type = "grant" ->
                               settled /\ SomeBefore(i, "iss", e.id) => Before(i, Entry("key", Issuer(e.id), e.event))
  BY DEF FoundedInOrder
<1>6. PICK m, S : m = box[i] /\ S = Ahead(box, i)
  OBVIOUS
<1>7. MessageFounded(v, S, m)
  BY <1>1, <1>2, <1>6 DEF SendInv, BoxFounded
<1>8. m \in Messages
  BY <1>1, <1>6, ElementOfSeq
<1>9. \A e : Before(i, e) <=> e \in S
  BY <1>4, <1>6
<1>10. \A type, id : SomeBefore(i, type, id) <=> Some(S, type, id)
  BY <1>5, <1>6
<1>11. CASE m.type = "key"
  BY <1>3, <1>6, <1>7, <1>9, <1>10, <1>11 DEF MessageFounded
<1>12. CASE m.type = "vcp"
  BY <1>3, <1>6, <1>7, <1>9, <1>10, <1>12 DEF MessageFounded
<1>13. CASE m.type = "acdc"
  BY <1>3, <1>6, <1>7, <1>9, <1>10, <1>13 DEF MessageFounded
<1>14. CASE m.type = "iss"
  BY <1>3, <1>6, <1>7, <1>9, <1>10, <1>14 DEF MessageFounded
<1>15. CASE m.type = "grant"
  BY <1>3, <1>6, <1>7, <1>9, <1>10, <1>15 DEF MessageFounded
<1> QED
  BY <1>8, <1>11, <1>12, <1>13, <1>14, <1>15 DEF Messages

\* The messages of sendCredentialArtifacts and grant arrive in an order a recipient
\* can verify them in: whatever it has fetched of its box, each message comes after
\* those it rests on, with calls that interleave and requests that fail half-way,
\* except for an issuance stored while its artifacts are sent.
THEOREM Founded == Spec => []FoundedInOrder
<1>1. Init => OInv
  BY Initially, OrderInitially DEF OInv
<1>2. OInv /\ [Next]_vars => OInv'
  BY OrderInductive
<1>3. OInv => FoundedInOrder
  BY BoxIsFounded DEF OInv
<1> QED
  BY <1>1, <1>2, <1>3, PTL DEF Spec
=============================================================================
