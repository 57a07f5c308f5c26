------------------------------- MODULE Issuance -------------------------------
(***************************************************************************)
(* Registries, credentials and their way to a recipient                    *)
(* (createRegistry, createCredential, issueCredential,                     *)
(* sendCredentialArtifacts and grant of                                    *)
(* packages/keri-infra/src/controller/controller.ts).                      *)
(*                                                                         *)
(* A registry or an issuance is first sealed in an interaction event of its *)
(* owner, then sent to the witnesses and only then stored. Other calls run  *)
(* at every await, and any request may fail and end its call. How witnesses *)
(* agree on an event is the subject of Kawa, how the recipient fetches its  *)
(* box that of Mailbox: it holds some first part of it.                    *)
(***************************************************************************)
EXTENDS Naturals, Sequences, FiniteSets, SequencesExt

CONSTANTS
    Owners,        \* identifiers the controller has the keys of
    Witnessed,     \* those that have a witness
    OwnerOf,       \* registry -> its owner: part of the vcp, and so of its digest
    RegistryOf,    \* credential -> its registry
    Sources,       \* credential -> the credentials its edges name, in order
    Requested,     \* bound: credentials that are sent
    Callers,
    MaxAnchors,    \* bound: events after the inception in a log
    MaxSends,      \* bound: calls that send artifacts or a grant
    MaxOverlaps,   \* bound: calls that begin while another is under way
    MaxFailures    \* bound: requests that fail

Registries == DOMAIN OwnerOf
Credentials == DOMAIN RegistryOf
Issuer(c) == OwnerOf[RegistryOf[c]]

ASSUME IssuanceAssumption ==
    /\ OwnerOf \in [Registries -> Owners]
    /\ RegistryOf \in [Credentials -> Registries]
    /\ Sources \in [Credentials -> Seq(Credentials)]
    /\ Requested \subseteq Credentials

VARIABLES
    log,           \* owner -> its key events in the order they are read in
    registries,    \* registry stored -> the event its seal couple names
    credentials,   \* ACDCs stored
    iss,           \* credential whose issuance is stored -> the event its couple names
    box,           \* messages forwarded to the recipient
    call,          \* caller -> the call it is in
    count,         \* what the bounds count
    disturbed      \* credentials whose issuance was stored while or after their artifacts were sent

vars == <<log, registries, credentials, iss, box, call, count, disturbed>>

(***************************************************************************)
(* A key event is the sequence of the seals of its chain: it commits to the *)
(* event before it, and nothing but the seal tells it from another. Its     *)
(* length is its sequence number; <<>> is the inception.                   *)
(***************************************************************************)
Seal(type, id) == <<type, id>>

\* A message, and also what is still to be done for one.
Entry(type, id, event) == [type |-> type, id |-> id, event |-> event]

Idle == [pc |-> "idle"]

Init ==
    /\ log = [o \in Owners |-> <<<<>>>>]
    /\ registries = <<>> /\ iss = <<>>
    /\ credentials = {}
    /\ box = <<>>
    /\ call = [p \in Callers |-> Idle]
    /\ count = [failures |-> 0, overlaps |-> 0, sends |-> 0]
    /\ disturbed = {}

Has(o, event) == event \in Range(log[o])

\* KeyEvent.interact on the log as it is now.
Interact(o, seal) == Append(Last(log[o]), seal)

\* saveMessage, ORDER BY sn: equal numbers in the order of insertion.
Save(rows, event) ==
    InsertAt(rows, 1 + Cardinality({x \in DOMAIN rows : Len(rows[x]) <= Len(event)}), event)

-----------------------------------------------------------------------------
(* Sealing: createRegistry and issueCredential up to the witnesses' receipts. *)

\* A call begins, while others are under way or not.
Start(p, sends) ==
    /\ call[p].pc = "idle"
    /\ count.sends + sends <= MaxSends
    /\ LET other == IF \E q \in Callers : call[q].pc # "idle" THEN 1 ELSE 0 IN
       /\ count.overlaps + other <= MaxOverlaps
       /\ count' = [count EXCEPT !.overlaps = @ + other, !.sends = @ + sends]

Begin(p, o, seal) ==
    /\ Start(p, 0)
    /\ Len(Last(log[o])) < MaxAnchors
    /\ call' = [call EXCEPT ![p] = [pc |-> "anchor", owner |-> o, event |-> Interact(o, seal)]]
    /\ UNCHANGED <<log, registries, credentials, iss, box, disturbed>>

\* The nonce of a vcp is drawn anew by each call.
Fresh(r) ==
    /\ r \notin DOMAIN registries
    /\ \A o \in Owners : \A event \in Range(log[o]) : Seal("vcp", r) \notin Range(event)
    /\ \A p \in Callers : call[p].pc \in {"anchor", "witness", "store"} => Last(call[p].event) # Seal("vcp", r)

CreateRegistry(p, r) ==
    /\ Fresh(r)
    /\ Begin(p, OwnerOf[r], Seal("vcp", r))

\* Also of a credential that has been issued before: the issuance has the date of
\* the credential and is the same event again.
IssueCredential(p, c) ==
    /\ c \in credentials
    /\ Begin(p, Issuer(c), Seal("iss", c))

CommitUnstored(p) ==
    LET o == call[p].owner
        event == call[p].event
    IN  /\ call[p].pc = "anchor"
        /\ log' = IF Has(o, event) THEN log ELSE [log EXCEPT ![o] = Save(@, event)]
        /\ call' = [call EXCEPT ![p] = IF o \in Witnessed THEN [@ EXCEPT !.pc = "witness"] ELSE Idle]
        /\ UNCHANGED <<registries, credentials, iss, box, count, disturbed>>

\* commit: once the witnesses agree, processMessage stores the event, whatever has
\* been stored since it was built. A copy is ignored.
Commit(p) ==
    LET o == call[p].owner
        event == call[p].event
    IN  /\ call[p].pc = "anchor"
        /\ log' = IF Has(o, event) THEN log ELSE [log EXCEPT ![o] = Save(@, event)]
        /\ call' = [call EXCEPT ![p].pc = IF o \in Witnessed THEN "witness" ELSE "store"]
        /\ UNCHANGED <<registries, credentials, iss, box, count, disturbed>>

\* The vcp or iss goes to the witness.
SendToWitness(p) ==
    /\ call[p].pc = "witness"
    /\ call' = [call EXCEPT ![p].pc = "store"]
    /\ UNCHANGED <<log, registries, credentials, iss, box, count, disturbed>>

\* Artifacts of c have been sent, or are being sent and their log has been read, for
\* its own sake or as those of a source.
Begun(c) ==
    \E d \in Credentials : /\ d = c \/ c \in Range(Sources[d])
                          /\ \/ \E i \in DOMAIN box : box[i].type \in {"iss", "acdc"} /\ box[i].id = d
                             \/ \E p \in Callers : /\ call[p].pc = "send"
                                                   /\ \E i \in DOMAIN call[p].todo :
                                                         call[p].todo[i] = Entry("iss", d, <<>>)

SealedByLast(p) == Last(log[call[p].owner])

\* The couple names the event that anchor returned.
SealedBy(p) == call[p].event

\* INSERT ... ON CONFLICT DO UPDATE: the row is replaced with its attachments.
Upsert(rows, id, event) == [x \in DOMAIN rows \cup {id} |-> IF x = id THEN event ELSE rows[x]]

\* processMessage.
Store(p) ==
    LET subject == Last(call[p].event)
        id == subject[2]
    IN  /\ call[p].pc = "store"
        /\ IF subject[1] = "vcp"
           THEN registries' = Upsert(registries, id, SealedBy(p)) /\ UNCHANGED <<iss, disturbed>>
           ELSE /\ iss' = Upsert(iss, id, SealedBy(p))
                /\ disturbed' = IF Begun(id) THEN disturbed \cup {id} ELSE disturbed
                /\ UNCHANGED registries
        /\ call' = [call EXCEPT ![p] = Idle]
        /\ UNCHANGED <<log, credentials, box, count>>

\* createCredential: the registry is stored. Nothing is asked of the edges.
CreateCredential(c) ==
    /\ RegistryOf[c] \in DOMAIN registries
    /\ c \notin credentials
    /\ credentials' = credentials \cup {c}
    /\ UNCHANGED <<log, registries, iss, box, call, count, disturbed>>

-----------------------------------------------------------------------------
(* Sending: what a call has still to do, read when its turn comes. *)

Send(p, todo) ==
    /\ call' = [call EXCEPT ![p] = IF todo = <<>> THEN Idle ELSE [pc |-> "send", todo |-> todo]]
    /\ UNCHANGED <<log, registries, credentials, iss, disturbed>>

SendCredentialArtifacts(p, c) ==
    /\ Start(p, 1)
    /\ c \in credentials
    /\ Send(p, <<Entry("artifacts", c, <<>>)>>)
    /\ UNCHANGED box

\* The rows a message is made of; a credential has no event but its issuance here.
GetRegistry(r) == Entry("vcp", r, registries[r])
GetCredentialEvents(c) == IF c \in DOMAIN iss THEN <<Entry("iss", c, iss[c])>> ELSE <<>>

\* grant: throws without an issuance; its anc is the event the issuance's couple names.
Grant(p, c) ==
    /\ Start(p, 1)
    /\ c \in credentials /\ GetCredentialEvents(c) # <<>>
    /\ Send(p, <<Entry("grant", c, GetCredentialEvents(c)[1].event)>>)
    /\ UNCHANGED box

Now(p) == Head(call[p].todo)
Rest(p) == Tail(call[p].todo)

ArtifactsSourcesLast(c) ==
    LET o == Issuer(c) IN
    [i \in DOMAIN log[o] |-> Entry("key", o, log[o][i])]
    \o <<Entry("vcp", c, <<>>), Entry("iss", c, <<>>)>>
    \o [i \in DOMAIN Sources[c] |-> Entry("source", Sources[c][i], <<>>)]

\* The log is read first; then come the sources, the key events, the registry and
\* the issuance.
Artifacts(c) ==
    LET o == Issuer(c) IN
    [i \in DOMAIN Sources[c] |-> Entry("source", Sources[c][i], <<>>)]
    \o [i \in DOMAIN log[o] |-> Entry("key", o, log[o][i])]
    \o <<Entry("vcp", c, <<>>), Entry("iss", c, <<>>)>>

\* A call of its own for each source that is stored, and then the source itself.
Expand(p) ==
    /\ call[p].pc = "send"
    /\ \/ /\ Now(p).type = "artifacts"
          /\ Send(p, Artifacts(Now(p).id) \o Rest(p))
       \/ /\ Now(p).type = "source"
          /\ Send(p, IF Now(p).id \in credentials
                     THEN <<Entry("artifacts", Now(p).id, <<>>), Entry("acdc", Now(p).id, <<>>)>> \o Rest(p)
                     ELSE <<>>)
    /\ UNCHANGED <<box, count>>

\* The message that is due, if there is one: buildCredentialMessage gives none, and
\* getCredentialEvents is empty, when no issuance is stored.
Due(e) ==
    CASE e.type \in {"key", "grant"} -> <<e>>
      [] e.type = "vcp" -> <<GetRegistry(RegistryOf[e.id])>>
      [] e.type = "iss" -> GetCredentialEvents(e.id)
      [] e.type = "acdc" -> IF GetCredentialEvents(e.id) = <<>> THEN <<>> ELSE <<e>>

Forwarding(p) == call[p].pc = "send" /\ Now(p).type \notin {"artifacts", "source"}

Forward(p) ==
    /\ Forwarding(p)
    /\ box' = box \o Due(Now(p))
    /\ Send(p, Rest(p))
    /\ UNCHANGED count

\* The call throws at a request that fails.
Throw(p) ==
    /\ call' = [call EXCEPT ![p] = Idle]
    /\ UNCHANGED <<log, registries, credentials, iss, disturbed>>

\* The witnesses do not agree: nothing has been stored.
FailCommit(p) ==
    /\ call[p].pc = "anchor" /\ call[p].owner \in Witnessed
    /\ Throw(p)
    /\ UNCHANGED <<box, count>>

\* The event is stored, or some of the messages have arrived, the failed one too or
\* not.
Fail(p) ==
    /\ count.failures < MaxFailures /\ count' = [count EXCEPT !.failures = @ + 1]
    /\ \/ call[p].pc = "witness" /\ UNCHANGED box
       \/ Forwarding(p) /\ box' \in {box, box \o Due(Now(p))}
    /\ Throw(p)

Next ==
    \/ \E c \in Credentials : CreateCredential(c)
    \/ \E p \in Callers :
          \/ \E r \in Registries : CreateRegistry(p, r)
          \/ \E c \in Credentials : IssueCredential(p, c)
          \/ \E c \in Requested : SendCredentialArtifacts(p, c) \/ Grant(p, c)
          \/ Commit(p) \/ SendToWitness(p) \/ Store(p)
          \/ Expand(p) \/ Forward(p) \/ FailCommit(p) \/ Fail(p)

Spec == Init /\ [][Next]_vars

-----------------------------------------------------------------------------
(* Properties. *)

\* What is stored is sealed in the owner's own stored log, and its couple names the
\* very event that seals it: also after calls that overlapped, failed or issued
\* again. So grant finds the anchor and sendCredentialArtifacts a seal.
RowsAreSealed ==
    /\ \A r \in DOMAIN registries :
          Has(OwnerOf[r], registries[r]) /\ Last(registries[r]) = Seal("vcp", r)
    /\ \A c \in DOMAIN iss :
          /\ c \in credentials
          /\ Has(Issuer(c), iss[c]) /\ Last(iss[c]) = Seal("iss", c)

Subject(p) == IF call[p].pc \in {"anchor", "witness", "store"} THEN Last(call[p].event) ELSE Seal("none", "none")

\* As long as no request fails, a seal in a log gets its registry or issuance: it is
\* stored, or the call that made the seal is about to store it.
SealedIsStored ==
    count.failures = 0 =>
        \A o \in Owners : \A event \in Range(log[o]) \ {<<>>} :
            \/ Last(event)[2] \in DOMAIN registries \cup DOMAIN iss
            \/ \E p \in Callers : Subject(p) = Last(event)

Before(i, e) == \E j \in 1 .. i - 1 : box[j] = e
SomeBefore(i, type, id) == \E j \in 1 .. i - 1 : box[j].type = type /\ box[j].id = id

\* A recipient that has fetched any first part of its box holds what each message
\* of it rests on: a key event its prior; a registry and an issuance the sealing
\* event; an issuance its registry and the sources of the credential, as far as they
\* are issued; a source its issuance; a grant, when the artifacts went before it, the
\* event it is anchored in. Interleaved calls and calls that fail half-way do not
\* change that; an issuance stored while or after its artifacts are sent does.
FoundedInOrder ==
    \A i \in DOMAIN box :
        LET e == box[i]
            settled == e.id \notin disturbed
        IN  CASE e.type = "key"  -> e.event # <<>> => Before(i, Entry("key", e.id, Front(e.event)))
              [] e.type = "vcp"  -> Before(i, Entry("key", OwnerOf[e.id], e.event))
              [] e.type = "acdc" -> settled => SomeBefore(i, "iss", e.id)
              [] e.type = "iss"  ->
                    /\ SomeBefore(i, "vcp", RegistryOf[e.id])
                    /\ settled => Before(i, Entry("key", Issuer(e.id), e.event))
                    /\ \A s \in Range(Sources[e.id]) \ disturbed :
                          s \in DOMAIN iss => SomeBefore(i, "acdc", s)
              [] e.type = "grant" ->
                    settled /\ SomeBefore(i, "iss", e.id) => Before(i, Entry("key", Issuer(e.id), e.event))
=============================================================================
